---- MODULE Spec2Model ----
(***************************************************************************)
(* Verification model of the qbsp geometric core: T-junction repair        *)
(* (qbsp/tjunc.cc), portals and area flood (qbsp/portals.cc), coplanar     *)
(* face merge (qbsp/merge.cc) and the plane registry / vertex hash         *)
(* (include/qbsp/map.hh).                                                  *)
(*                                                                         *)
(* Geometry is carried on an integer lattice.  All floating-point          *)
(* predicates of the source are translated into exact integer arithmetic   *)
(* (squared lengths, cross products), so that an epsilon test decides the  *)
(* same way as the source does on lattice points.  Sequences model the     *)
(* source's 0-based vectors; At0(s, i) reads element i of the vector.      *)
(***************************************************************************)
EXTENDS Integers, Sequences, FiniteSets, TLC

VARIABLES
    phase,       \* which subsystem this behaviour exercises
    tjScene,     \* T-junction pass: index of the scene (tree, faces, vertex table)
    tjLevel,     \* qbsp_options.tjunc
    tjMaxedges,  \* qbsp_options.maxedges
    tjOrder,     \* iteration order of the library's std::unordered_set
    tjRun,       \* position of TJunc: "init", "running", "done" or "aborted"
    tjOrig,      \* face -> original_vertices
    tjFrags,     \* face -> fragments (sequence of output_vertices sequences)
    tjStats,     \* tjunc_stats_t
    tjPc,        \* face -> position of the face's FixFaceEdges task
    tjLocal,     \* face -> the task's local result (list `faces` and counters)
    planes,      \* plane registry: map.planes (0-based ids, stored as a sequence)
    plLast,      \* plane registry: the last call, its argument and what it returned
    hashverts,   \* vertex hash: map.hashverts, cell -> list of hashvert_t
    hvLast,      \* vertex hash: the last call, its arguments and what it returned
    mgMaxEdges,  \* merge: MAXEDGES of the build
    mgRest,      \* merge: the faces of plane.faces MergePlaneFaces has yet to take
    mgMerged,    \* merge: the list `merged`, head first
    mgPc,        \* merge: position of MergePlaneFaces, and which run it is
    mgFirst,     \* merge: the face list the first run produced
    mgMerges,    \* merge: the pairs TryMerge has merged in this run
    mgTry,       \* merge: a call of TryMerge, its arguments and result
    poTree,      \* portals: index of the tree (nodes, planes, bounds)
    poPortals,   \* portals: every portal_t allocated so far, by id (0 is NULL)
    poHead,      \* portals: node -> node.portals
    poBounds,    \* portals: node -> node.bounds
    poStats,     \* portals: portalstats_t::c_tinyportals
    poCalls,     \* portals: the number of calls made
    poErr,       \* portals: the FError / Q_assert message that ended the program
    arLeaf,      \* areas: leaf -> contents, func_areaportal entity of its brushes
    arOccupied,  \* areas: the leaves FindOccupiedClusters returns
    arArea,      \* areas: node -> node.area
    arPortalAreas, \* areas: entity -> portalareas
    c_areas      \* areas: map.c_areas

tjVars == <<tjScene, tjLevel, tjMaxedges, tjOrder, tjRun, tjOrig, tjFrags, tjStats, tjPc, tjLocal>>

plVars == <<planes, plLast>>

hvVars == <<hashverts, hvLast>>

mgVars == <<mgMaxEdges, mgRest, mgMerged, mgPc, mgFirst, mgMerges, mgTry>>

poVars == <<poTree, poPortals, poHead, poBounds, poStats, poCalls, poErr>>

arVars == <<arLeaf, arOccupied, arArea, arPortalAreas, c_areas>>

vars == <<phase, tjVars, plVars, hvVars, mgVars, poVars, arVars>>

\* what the steps of one part of the program leave alone
notTj == <<phase, plVars, hvVars, mgVars, poVars, arVars>>

notPl == <<phase, tjVars, hvVars, mgVars, poVars, arVars>>

notHv == <<phase, tjVars, plVars, mgVars, poVars, arVars>>

notMg == <<phase, tjVars, plVars, hvVars, poVars, arVars>>

notPo == <<phase, tjVars, plVars, hvVars, mgVars>>

\* the state of a part of the program that is not running
NoCall == [op |-> "none", count |-> 0]

PlIdle == planes = <<>> /\ plLast = NoCall

HvIdle == hashverts = <<>> /\ hvLast = NoCall

MgIdle ==
    /\ mgMaxEdges = 0 /\ mgRest = <<>> /\ mgMerged = <<>> /\ mgPc = "off"
    /\ mgFirst = <<>> /\ mgMerges = <<>> /\ mgTry = NoCall

PoIdle ==
    /\ poTree = 0 /\ poPortals = <<>> /\ poHead = <<>> /\ poBounds = <<>> /\ poStats = 0
    /\ poCalls = 0 /\ poErr = ""

ArIdle ==
    /\ arLeaf = <<>> /\ arOccupied = <<>> /\ arArea = <<>> /\ arPortalAreas = <<>>
    /\ c_areas = 0

-----------------------------------------------------------------------------
(* Generic helpers *)

At0(s, i) == s[i + 1]

Min(S) == CHOOSE x \in S : \A y \in S : x <= y

Max(S) == CHOOSE x \in S : \A y \in S : x >= y

Range(s) == {s[i] : i \in 1..Len(s)}

RECURSIVE SumSeq(_)
SumSeq(s) == IF s = <<>> THEN 0 ELSE Head(s) + SumSeq(Tail(s))

RECURSIVE Flatten(_)
Flatten(ss) == IF ss = <<>> THEN <<>> ELSE Head(ss) \o Flatten(Tail(ss))

\* s[a..b] with 0-based inclusive positions (empty when b < a)
Slice0(s, a, b) == [i \in 1..(b - a + 1) |-> s[a + i]]

\* the vector rotated so that 0-based position i comes first
Rotate0(s, i) == Slice0(s, i, Len(s) - 1) \o Slice0(s, 0, i - 1)

-----------------------------------------------------------------------------
(* Lattice vectors (2D: every scene of the T-junction pass lies in z = 0) *)

VSub(a, b) == <<a[1] - b[1], a[2] - b[2]>>

VDot(a, b) == a[1] * b[1] + a[2] * b[2]

VCross(a, b) == a[1] * b[2] - a[2] * b[1]

VLen2(a) == VDot(a, a)

-----------------------------------------------------------------------------
(* T-junction pass: the frozen inputs (tree, faces, vertex table) *)

\* settings::tjunclevel_t, in increasing order of effort
NONE == 0

ROTATE == 1

RETOPOLOGIZE == 2

MWT == 3

TjuncLevels == {NONE, ROTATE, RETOPOLOGIZE, MWT}

\* largest edge limit tried; 0 is "no edge limit"
MaxMaxedges == 5

MaxedgesValues == {0} \cup (3..MaxMaxedges)

\* The BSP tree the pass walks: node 1 is the head node, node 2 an interior
\* child, nodes 3, 4, 5 leaves.
TjNodes == 1..5

TjIsLeaf(n) == n \in {3, 4, 5}

TjChildren(n) == IF n = 1 THEN <<2, 3>> ELSE <<4, 5>>

Box(x0, y0, x1, y1) == [mins |-> <<x0, y0>>, maxs |-> <<x1, y1>>]

\* Scene 1: three coplanar rectangles; the corner (1,1) shared by the two
\* upper ones lies in the middle of the top edge of the lower one.
Scene1 ==
    [unit |-> 1,
     dv |-> << <<0,0>>, <<2,0>>, <<2,1>>, <<0,1>>, <<1,1>>, <<1,2>>, <<0,2>>, <<2,2>> >>,
     orig |-> << <<1,2,3,4>>, <<4,5,6,7>>, <<5,3,8,6>> >>,
     facelist |-> << <<1,2>>, <<3>>, <<>>, <<>>, <<>> >>,
     bounds |-> << Box(0,0,2,2), Box(0,1,2,2), Box(0,0,2,1), Box(0,1,1,2), Box(1,1,2,2) >>]

\* Scene 2: a triangle two of whose edges each carry two vertices of
\* neighbouring faces, so that no start point gives a fan without a
\* zero-area triangle.
Scene2 ==
    [unit |-> 1,
     dv |-> << <<0,0>>, <<3,0>>, <<3,3>>, <<1,0>>, <<2,0>>, <<3,1>>, <<3,2>>,
               <<1,-1>>, <<2,-1>>, <<4,1>>, <<4,2>> >>,
     orig |-> << <<1,2,3>>, <<4,8,9,5>>, <<6,10,11,7>> >>,
     facelist |-> << <<1>>, <<2,3>>, <<>>, <<>>, <<>> >>,
     bounds |-> << Box(0,-1,4,3), Box(1,-1,4,2), Box(0,0,3,3), Box(1,-1,2,0), Box(3,1,4,2) >>]

\* Scene 3: a convex octagon, a far-away face in a node whose bounds the edge
\* boxes of the octagon miss, and a face that was omitted (no vertices).
Scene3 ==
    [unit |-> 1,
     dv |-> << <<1,0>>, <<2,0>>, <<3,1>>, <<3,2>>, <<2,3>>, <<1,3>>, <<0,2>>, <<0,1>>,
               <<8,0>>, <<9,0>>, <<9,1>> >>,
     orig |-> << <<1,2,3,4,5,6,7,8>>, <<9,10,11>>, <<>> >>,
     facelist |-> << <<1,3>>, <<2>>, <<>>, <<>>, <<>> >>,
     bounds |-> << Box(0,0,9,3), Box(8,0,9,1), Box(0,0,3,3), Box(8,0,9,1), Box(8,0,9,1) >>]

\* Scene 4: faces whose deduplicated vertices repeat (degenerate edges): a
\* triangle with a doubled corner, a face collapsed onto one edge, and a
\* pentagon above them with the neighbours' corner (1,0) on its lower edge.
Scene4 ==
    [unit |-> 1,
     dv |-> << <<0,0>>, <<2,0>>, <<2,2>>, <<0,2>>, <<1,0>>, <<1,-1>>, <<0,-1>>, <<1,3>> >>,
     orig |-> << <<1,1,7,5>>, <<5,6,6>>, <<1,2,3,8,4>> >>,
     facelist |-> << <<1,2>>, <<3>>, <<>>, <<>>, <<>> >>,
     bounds |-> << Box(0,-1,2,3), Box(0,0,2,3), Box(0,-1,1,0), Box(0,0,2,3), Box(0,0,2,3) >>]

\* Scene 5: a strip one unit high and 78 long with the two lower corners
\* of the face above it, (1,1) and (77,1), on its upper edge.  Seen from the
\* far end of the strip the step from a corner to the vertex next to it is
\* under the angle floor of TriangleIsValid, and one unit off the line.
Scene5 ==
    [unit |-> 1,
     dv |-> << <<0,0>>, <<78,0>>, <<78,1>>, <<0,1>>, <<77,1>>, <<1,1>>, <<77,2>>, <<1,2>> >>,
     orig |-> << <<1,2,3,4>>, <<6,5,7,8>> >>,
     facelist |-> << <<1>>, <<2>>, <<>>, <<>>, <<>> >>,
     bounds |-> << Box(0,0,78,2), Box(1,1,77,2), Box(0,0,78,1), Box(1,1,77,2), Box(1,1,77,2) >>]

\* Scene 6: a flat quadrilateral (89,0) (0,0) (76,1) (88,1) with two corners
\* of a face below it on its lower edge and two corners of a face above it
\* on its upper edge, next to the corner (76,1).  The triangle at that corner
\* is under the angle floor seen from (0,0), so the first usable fan base is
\* late in the superface and its fan runs on past the start of the array.
Scene6 ==
    [unit |-> 1,
     dv |-> << <<89,0>>, <<0,0>>, <<76,1>>, <<88,1>>, <<87,0>>, <<86,0>>, <<77,1>>, <<78,1>>,
               <<87,-1>>, <<86,-1>>, <<78,2>>, <<77,2>> >>,
     orig |-> << <<1,2,3,4>>, <<6,5,9,10>>, <<7,8,11,12>> >>,
     facelist |-> << <<1>>, <<2,3>>, <<>>, <<>>, <<>> >>,
     bounds |-> << Box(0,-1,89,2), Box(77,-1,87,2), Box(0,0,89,1), Box(86,-1,87,0),
                   Box(77,1,78,2) >>]

\* Scene 7, on a lattice of 40 steps to the unit: a square one unit wide
\* whose upper edge runs from (0,0) to (40,0); a corner of one neighbour is
\* 3 steps (0.075) above the middle of that edge and a corner of another
\* 3 steps below it, so both are within DEFAULT_ON_EPSILON of the edge line
\* and project onto the same point of it.
Scene7 ==
    [unit |-> 40,
     dv |-> << <<0,0>>, <<40,0>>, <<40,-40>>, <<0,-40>>, <<20,3>>, <<30,20>>, <<10,20>>,
               <<20,-3>>, <<15,-15>>, <<25,-15>> >>,
     orig |-> << <<1,2,3,4>>, <<5,6,7>>, <<8,9,10>> >>,
     facelist |-> << <<1>>, <<2,3>>, <<>>, <<>>, <<>> >>,
     bounds |-> << Box(0,-40,40,20), Box(10,-15,30,20), Box(0,-40,40,0), Box(10,3,30,20),
                   Box(15,-15,25,-3) >>]

Scenes == <<Scene1, Scene2, Scene3, Scene4, Scene5, Scene6, Scene7>>

TjFaces(sc) == 1..Len(Scenes[sc].orig)

\* map.bsp.dvertexes[v]
Dvertex(sc, v) == Scenes[sc].dv[v]

\* lattice steps to one unit of length in the scene
SceneUnit(sc) == Scenes[sc].unit

-----------------------------------------------------------------------------
(* T-junction pass: edge tests and superface construction *)

\* DEFAULT_ON_EPSILON as the fraction OnEpsilonNum / OnEpsilonDen
OnEpsilonNum == 1

OnEpsilonDen == 10

Absent == [has |-> FALSE, dist |-> 0]

\* PointOnEdge.  The source works with the unit direction edge_dir and
\* distances along it; here dir is the unnormalised edge vector and every
\* distance (start, end, the result) is carried multiplied by |dir|, which
\* leaves all comparisons unchanged.  The perpendicular error test
\* |cross| / |dir| > eps is compared squared, eps being `unit` times
\* DEFAULT_ON_EPSILON in lattice steps.
PointOnEdge(unit, p, edge_start, dir, start, end) ==
    LET delta == VSub(p, edge_start)
        dist == VDot(delta, dir)
        cr == VCross(delta, dir)
    IN  IF dist <= start \/ dist >= end THEN Absent
        ELSE IF cr * cr * OnEpsilonDen * OnEpsilonDen
                  > OnEpsilonNum * OnEpsilonNum * unit * unit * VLen2(dir) THEN Absent
        ELSE [has |-> TRUE, dist |-> dist]

\* the counters of tjunc_stats_t
StatNames == {"degenerate", "tjunctions", "faceoverflows", "facecollapse", "rotates",
              "norotates", "retopology", "faceretopology", "mwt", "trimwt", "facemwt"}

ZeroStats == [n \in StatNames |-> 0]

AddStats(a, b) == [n \in StatNames |-> a[n] + b[n]]

Bump(st, n, k) == [st EXCEPT ![n] = @ + k]

\* TestEdge: the vertices appended to the superface for the (sub)edge p1..p2
\* and the counters it raises.
RECURSIVE TestEdge(_, _, _, _, _, _, _, _, _)
TestEdge(sc, start, end, p1, p2, startvert, edge_verts, edge_start, dir) ==
    IF p1 = p2
    THEN [sf |-> <<>>, stats |-> Bump(ZeroStats, "degenerate", 1)]
    ELSE LET hits == {k \in startvert..(Len(edge_verts) - 1) :
                        /\ At0(edge_verts, k) # p1
                        /\ At0(edge_verts, k) # p2
                        /\ PointOnEdge(SceneUnit(sc), Dvertex(sc, At0(edge_verts, k)),
                                       edge_start, dir, start, end).has}
         IN  IF hits = {}
             THEN [sf |-> <<p1>>, stats |-> ZeroStats]
             ELSE LET k == Min(hits)
                      j == At0(edge_verts, k)
                      dist == PointOnEdge(SceneUnit(sc), Dvertex(sc, j), edge_start, dir, start, end).dist
                      a == TestEdge(sc, start, dist, p1, j, k + 1, edge_verts, edge_start, dir)
                      b == TestEdge(sc, dist, end, j, p2, k + 1, edge_verts, edge_start, dir)
                  IN  [sf |-> a.sf \o b.sf,
                       stats |-> Bump(AddStats(a.stats, b.stats), "tjunctions", 1)]

\* aabb3d::disjoint(other, 0.0) and aabb3d::containsPoint
AabbDisjoint(a, b) ==
    \E i \in 1..2 : a.maxs[i] < b.mins[i] \/ a.mins[i] > b.maxs[i]

AabbContainsPoint(a, p) ==
    \A i \in 1..2 : a.mins[i] <= p[i] /\ p[i] <= a.maxs[i]

\* (aabb3d{} + p1 + p2).grow(1): one unit of length is `unit` lattice steps
EdgeAabb(unit, p1, p2) ==
    [mins |-> <<Min({p1[1], p2[1]}) - unit, Min({p1[2], p2[2]}) - unit>>,
     maxs |-> <<Max({p1[1], p2[1]}) + unit, Max({p1[2], p2[2]}) + unit>>]

RECURSIVE FaceVertsInAabb(_, _, _, _)
FaceVertsInAabb(sc, orig, flist, aabb) ==
    IF flist = <<>> THEN <<>>
    ELSE SelectSeq(orig[Head(flist)], LAMBDA v : AabbContainsPoint(aabb, Dvertex(sc, v)))
         \o FaceVertsInAabb(sc, orig, Tail(flist), aabb)

\* FindEdgeVerts_FaceBounds_R: candidates in the order the walk appends them
RECURSIVE FindEdgeVerts_FaceBounds_R(_, _, _, _)
FindEdgeVerts_FaceBounds_R(sc, orig, node, aabb) ==
    IF TjIsLeaf(node) THEN <<>>
    ELSE IF AabbDisjoint(Scenes[sc].bounds[node], aabb) THEN <<>>
    ELSE FaceVertsInAabb(sc, orig, Scenes[sc].facelist[node], aabb)
         \o FindEdgeVerts_FaceBounds_R(sc, orig, TjChildren(node)[1], aabb)
         \o FindEdgeVerts_FaceBounds_R(sc, orig, TjChildren(node)[2], aabb)

\* (mutant) the walk looks at the faces of the head node only
FindEdgeVerts_HeadOnly(sc, orig, p1, p2) ==
    FaceVertsInAabb(sc, orig, Scenes[sc].facelist[1], EdgeAabb(SceneUnit(sc), p1, p2))

FindEdgeVerts_FaceBounds(sc, orig, p1, p2) ==
    FindEdgeVerts_FaceBounds_R(sc, orig, 1, EdgeAabb(SceneUnit(sc), p1, p2))

\* CreateSuperFace: edge i of face f runs from original_vertices[i] to
\* original_vertices[(i + 1) % size]
RECURSIVE CreateSuperFaceFrom(_, _, _, _)
CreateSuperFaceFrom(sc, orig, f, i) ==
    LET ov == orig[f]
    IN  IF i >= Len(ov) THEN [sf |-> <<>>, stats |-> ZeroStats]
        ELSE LET v1 == At0(ov, i)
                 v2 == At0(ov, (i + 1) % Len(ov))
                 edge_start == Dvertex(sc, v1)
                 e2 == Dvertex(sc, v2)
                 dir == VSub(e2, edge_start)
                 edge_verts == FindEdgeVerts_FaceBounds(sc, orig, edge_start, e2)
                 here == TestEdge(sc, 0, VLen2(dir), v1, v2, 0, edge_verts, edge_start, dir)
                 rest == CreateSuperFaceFrom(sc, orig, f, i + 1)
             IN  [sf |-> here.sf \o rest.sf, stats |-> AddStats(here.stats, rest.stats)]

CreateSuperFace(sc, orig, f) == CreateSuperFaceFrom(sc, orig, f, 0)

-----------------------------------------------------------------------------
(* T-junction pass: repair steps *)

\* 1 / sin^2(0.01 degrees), rounded down: the angle floor of TriangleIsValid
InvSinSqAngleEps == 32828063

\* AngleOfTriangle(a, b, c) < angle_epsilon.  The angle at a is below the
\* floor iff its cosine num/den exceeds cos(eps), i.e. num > 0 and
\* cross^2 < sin^2(eps) * |b-a|^2 * |c-a|^2.  With den = 0 the source compares
\* NaN, which is never below the floor.
AngleBelowEps(a, b, c) ==
    LET u == VSub(b, a)
        w == VSub(c, a)
        cr == VCross(u, w)
    IN  /\ VDot(u, w) > 0
        /\ cr * cr <= (VLen2(u) * VLen2(w) - 1) \div InvSinSqAngleEps

TriangleIsValid(sc, v0, v1, v2) ==
    LET a == Dvertex(sc, v0)
        b == Dvertex(sc, v1)
        c == Dvertex(sc, v2)
    IN  ~ (AngleBelowEps(a, b, c) \/ AngleBelowEps(b, c, a) \/ AngleBelowEps(c, a, b))

\* the rotation loop of FixFaceEdges: base i is good when no fan triangle
\* (i, i+x+1, i+x+2) is invalid; the result is the first good base, or the
\* superface size when there is none
RotationValid(sc, superface, i) ==
    LET n == Len(superface)
    IN  \A x \in 0..(n - 3) :
            TriangleIsValid(sc, At0(superface, i),
                            At0(superface, (i + x + 1) % n),
                            At0(superface, (i + x + 2) % n))

\* (mutant) the last good base wins
FirstValidRotation_Last(sc, superface) ==
    LET good == {i \in 0..(Len(superface) - 1) : RotationValid(sc, superface, i)}
    IN  IF good = {} THEN Len(superface) ELSE Max(good)

FirstValidRotation(sc, superface) ==
    LET good == {i \in 0..(Len(superface) - 1) : RotationValid(sc, superface, i)}
    IN  IF good = {} THEN Len(superface) ELSE Min(good)

\* RetopologizeFace: "the next point lays on the edge v0-v2", with
\* v0 = input[seed], v2 = input[end]
NextOnClosingEdge(sc, input, seed, end) ==
    LET n == Len(input)
        v0 == Dvertex(sc, At0(input, seed))
        v2 == Dvertex(sc, At0(input, end))
        dir == VSub(v0, v2)
    IN  PointOnEdge(SceneUnit(sc), Dvertex(sc, At0(input, (end + 1) % n)), v2, dir, 0,
                    VLen2(dir)).has

SeedIsGood(sc, input, seed) ==
    LET n == Len(input)
    IN  /\ TriangleIsValid(sc, At0(input, seed), At0(input, (seed + 1) % n),
                           At0(input, (seed + 2) % n))
        /\ ~ NextOnClosingEdge(sc, input, seed, (seed + 2) % n)

\* the winding loop: end runs from wrap + 1 round to wrap; at the first end
\* whose successor lies on the closing edge it backs up by one and stops
WindEnd(sc, input, seed) ==
    LET n == Len(input)
        wrap == (seed + 2) % n
        stops == {k \in 1..(n - 1) : NextOnClosingEdge(sc, input, seed, (wrap + k) % n)}
    IN  IF stops = {} THEN wrap ELSE (wrap + Min(stops) - 1) % n

RECURSIVE RetopologizeLoop(_, _, _)
RetopologizeLoop(sc, input, result) ==
    LET n == Len(input)
        seeds == {s \in 0..(n - 1) : SeedIsGood(sc, input, s)}
    IN  IF n = 0 THEN result
        ELSE IF n < 3 THEN <<>>
        ELSE IF seeds = {} THEN <<>>
        ELSE LET seed == Min(seeds)
                 wrap == (seed + 2) % n
                 end == WindEnd(sc, input, seed)
             IN  IF seed = end THEN Append(result, input)
                 ELSE IF end = wrap THEN Append(result, Rotate0(input, seed))
                 ELSE IF end < seed
                 THEN RetopologizeLoop(sc, Slice0(input, end, seed),
                          Append(result, Slice0(input, seed, n - 1) \o Slice0(input, 0, end - 1)))
                 ELSE RetopologizeLoop(sc, Slice0(input, 0, seed) \o Slice0(input, end, n - 1),
                          Append(result, Slice0(input, seed, end)))

RetopologizeFace(sc, vertices) == RetopologizeLoop(sc, vertices, <<>>)

\* one pass of the while loop of SplitFaceIntoFragments on output[pos]: the
\* first maxedges vertices are appended to the list as a fragment, the
\* vertices from position maxedges - 1 on are copied down to position 1 and
\* the vector is resized to size - maxedges + 2.  With maxedges 1 the
\* ranges of std::copy overlap with the target ahead of the source, and
\* copy names what the library does then: "memmove" moves the block as it
\* was, "forward" copies element by element; the added element is
\* value-initialized by resize.
SplitPass(output, pos, maxedges, copy) ==
    LET superface == output[pos]
        n == Len(superface)
        left == IF maxedges >= 2
                THEN <<superface[1]>> \o Slice0(superface, maxedges - 1, n - 1)
                ELSE IF copy = "memmove"
                THEN <<superface[1]>> \o Slice0(superface, 0, n - 2) \o <<0>>
                ELSE [i \in 1..n |-> superface[1]] \o <<0>>
    IN  Append([output EXCEPT ![pos] = left], Slice0(superface, 0, maxedges - 1))

\* (mutant) the loop body runs once
SplitWhile_Once(output, pos, maxedges, overflows) ==
    IF Len(output[pos]) > maxedges
    THEN [output |-> Append([output EXCEPT ![pos] =
                                <<output[pos][1]>>
                                    \o Slice0(output[pos], maxedges - 1, Len(output[pos]) - 1)],
                            Slice0(output[pos], 0, maxedges - 1)),
          overflows |-> overflows + 1]
    ELSE [output |-> output, overflows |-> overflows]

\* SplitFaceIntoFragments on the element at position pos (1-based) of the
\* list `output`: the while loop, then the splice that moves the list's
\* first element to its end.  Returns the list, the position at which the
\* element the caller's iterator refers to now sits, and the overflow count.
RECURSIVE SplitWhile(_, _, _, _)
SplitWhile(output, pos, maxedges, overflows) ==
    LET superface == output[pos]
    IN  IF Len(superface) > maxedges
        THEN SplitWhile(
                 Append([output EXCEPT ![pos] =
                            <<superface[1]>> \o Slice0(superface, maxedges - 1, Len(superface) - 1)],
                        Slice0(superface, 0, maxedges - 1)),
                 pos, maxedges, overflows + 1)
        ELSE [output |-> output, overflows |-> overflows]

SplitFaceIntoFragments(output, pos, maxedges) ==
    LET w == SplitWhile(output, pos, maxedges, 0)
    IN  [output |-> Tail(w.output) \o <<Head(w.output)>>,
         pos |-> IF pos = 1 THEN Len(w.output) ELSE pos - 1,
         overflows |-> w.overflows]

\* the range-for of FixFaceEdges over the list `faces`, from iterator
\* position pos on; bad records a failed Q_assert(face.size() >= 3)
RECURSIVE SplitAll(_, _, _, _, _)
SplitAll(faces, pos, maxedges, overflows, bad) ==
    IF pos > Len(faces) THEN [faces |-> faces, overflows |-> overflows, bad |-> bad]
    ELSE LET r == SplitFaceIntoFragments(faces, pos, maxedges)
         IN  SplitAll(r.output, r.pos + 1, maxedges, overflows + r.overflows,
                      bad \/ Len(faces[pos]) < 3 \/ Len(r.output[r.pos]) < 3)

-----------------------------------------------------------------------------
(* T-junction pass: minimum-weight triangulation and fan packing *)

\* floor(sqrt(n)) by bisection
RECURSIVE ISqrtIn(_, _, _)
ISqrtIn(n, lo, hi) ==
    IF lo >= hi THEN lo
    ELSE LET mid == (lo + hi + 1) \div 2
         IN  IF mid * mid <= n THEN ISqrtIn(n, mid, hi) ELSE ISqrtIn(n, lo, mid - 1)

\* floor(1000 * sqrt(n)) for q = floor(sqrt(n)): 1000 q + r with the largest
\* r < 1000 such that (1000 q + r)^2 <= 1000000 n, compared after taking
\* 1000000 q^2 from both sides
RECURSIVE MilliRootFrom(_, _, _, _)
MilliRootFrom(n, q, lo, hi) ==
    IF lo >= hi THEN 1000 * q + lo
    ELSE LET mid == (lo + hi + 1) \div 2
         IN  IF 2000 * q * mid + mid * mid <= 1000000 * (n - q * q)
             THEN MilliRootFrom(n, q, mid, hi)
             ELSE MilliRootFrom(n, q, lo, mid - 1)

\* qv::distance of two lattice points, in thousandths, rounded down
DistMilli(a, b) ==
    MilliRootFrom(VLen2(VSub(a, b)), ISqrtIn(VLen2(VSub(a, b)), 0, 46340), 0, 999)

\* Weights of the table T.  WPenalty stands for
\* nexttoward(numeric_limits::max(), 0), WMax for numeric_limits::max() and
\* WInf for the infinity a sum of two of them overflows to; a finite weight
\* added to one of them is absorbed by rounding.
WPenalty == 1000000000

WMax == 1000000001

WInf == 1000000002

WAdd(a, b) ==
    IF a < WPenalty /\ b < WPenalty THEN a + b
    ELSE IF a < WPenalty THEN b
    ELSE IF b < WPenalty THEN a
    ELSE WInf

\* T[i + j*n]; entries with j < i + 2 are never written and stay 0
MwtT(T, i, j) == IF j < i + 2 THEN 0 ELSE T[<<i, j>>].w

\* the weight tried for triangle i, k, j
MwtWeight(sc, indices, T, i, j, k) ==
    IF ~ TriangleIsValid(sc, At0(indices, i), At0(indices, j), At0(indices, k))
    THEN WPenalty
    ELSE LET pi == Dvertex(sc, At0(indices, i))
             pj == Dvertex(sc, At0(indices, j))
             pk == Dvertex(sc, At0(indices, k))
         IN  WAdd(WAdd((DistMilli(pi, pj) + DistMilli(pj, pk) + DistMilli(pk, pi))
                           \div SceneUnit(sc),
                       MwtT(T, i, k)),
                  MwtT(T, k, j))

\* the loop over k for one cell: the first k whose weight is below every
\* earlier one (and below the initial maximum); k = -1 when K stays unset
RECURSIVE MwtCell(_, _, _, _, _, _, _)
MwtCell(sc, indices, T, i, j, k, best) ==
    IF k > j - 1 THEN best
    ELSE LET weight == MwtWeight(sc, indices, T, i, j, k)
         IN  MwtCell(sc, indices, T, i, j, k + 1,
                     IF weight < best.w THEN [w |-> weight, k |-> k] ELSE best)

\* the table filled diagonal by diagonal
RECURSIVE MwtFill(_, _, _, _)
MwtFill(sc, indices, diagonal, T) ==
    LET n == Len(indices)
    IN  IF diagonal >= n THEN T
        ELSE MwtFill(sc, indices, diagonal + 1,
                 T @@ [c \in {<<i, i + diagonal>> : i \in 0..(n - 1 - diagonal)} |->
                          MwtCell(sc, indices, T, c[1], c[2], c[1] + 1, [w |-> WMax, k |-> -1])])

\* std::sort of a three-element triangle
SortTriple(a, b, c) ==
    LET lo == Min({a, b, c})
        hi == Max({a, b, c})
    IN  <<lo, a + b + c - lo - hi, hi>>

\* the walk of K from edge (0, n-1), breadth first
RECURSIVE MwtWalk(_, _, _)
MwtWalk(T, queue, triangles) ==
    IF queue = <<>> THEN triangles
    ELSE LET edge == Head(queue)
             rest == Tail(queue)
         IN  IF edge[1] = edge[2] THEN MwtWalk(T, rest, triangles)
             ELSE IF <<edge[1], edge[2]>> \notin DOMAIN T THEN MwtWalk(T, rest, triangles)
             ELSE IF T[<<edge[1], edge[2]>>].k = -1 THEN MwtWalk(T, rest, triangles)
             ELSE LET c == T[<<edge[1], edge[2]>>].k
                  IN  MwtWalk(T, rest \o << <<edge[1], c>>, <<c, edge[2]>> >>,
                              Append(triangles, SortTriple(edge[1], edge[2], c)))

\* minimum_weight_triangulation: triangles as triples of 0-based positions
\* in `indices`
minimum_weight_triangulation(sc, indices) ==
    MwtWalk(MwtFill(sc, indices, 2, << >>), << <<0, Len(indices) - 1>> >>, <<>>)

\* triangle_exists: the 0-based index of the first triangle equal to
\* (a, b, c) up to rotation, or -1
triangle_exists(triangles, a, b, c) ==
    LET hits == {i \in 0..(Len(triangles) - 1) :
                    \E r \in 0..2 :
                        /\ At0(At0(triangles, i), r) = a
                        /\ At0(At0(triangles, i), (r + 1) % 3) = b
                        /\ At0(At0(triangles, i), (r + 2) % 3) = c}
    IN  IF hits = {} THEN -1 ELSE Min(hits)

\* the inner loop of find_best_fan: wind from edge first-mid while `last`
\* runs round to `first`
RECURSIVE FanFrom(_, _, _, _, _, _)
FanFrom(triangles, first, mid, last, num_vertices, my_tri) ==
    IF last = first THEN my_tri
    ELSE LET ftri == triangle_exists(triangles, first, mid, last)
         IN  IF ftri = -1
             THEN FanFrom(triangles, first, mid, (last + 1) % num_vertices, num_vertices, my_tri)
             ELSE FanFrom(triangles, first, last, (last + 1) % num_vertices, num_vertices,
                          Append(my_tri, ftri))

\* find_best_fan: c counts the (triangle, permutation) pairs in loop order
RECURSIVE BestFanFrom(_, _, _, _)
BestFanFrom(triangles, num_vertices, c, best) ==
    IF c >= 3 * Len(triangles) THEN best
    ELSE LET tri == At0(triangles, c \div 3)
             perm == c % 3
             my_tri == FanFrom(triangles, At0(tri, perm), At0(tri, (perm + 1) % 3),
                               At0(tri, (perm + 2) % 3), num_vertices, <<>>)
         IN  BestFanFrom(triangles, num_vertices, c + 1,
                         IF best = <<>> \/ Len(my_tri) > Len(best) THEN my_tri ELSE best)

find_best_fan(triangles, num_vertices) == BestFanFrom(triangles, num_vertices, 0, <<>>)

\* find_seed_vertex: intersect the fan's triangles until one vertex is
\* left.  When two are left at the end the source takes the first element
\* of a std::unordered_set, whose iteration order the library decides:
\* `order` names that decision.
RECURSIVE SeedFrom(_, _, _, _, _)
SeedFrom(triangles, fan, i, verts, order) ==
    IF i > Len(fan)
    THEN IF order = "ascending" THEN Min(verts) ELSE Max(verts)
    ELSE LET left == verts \cap Range(At0(triangles, fan[i]))
         IN  IF Cardinality(left) = 1 THEN CHOOSE v \in left : TRUE
             ELSE SeedFrom(triangles, fan, i + 1, left, order)

find_seed_vertex(triangles, fan, order) ==
    SeedFrom(triangles, fan, 2, Range(At0(triangles, fan[1])), order)

\* (mutant) the vertices are ordered by position alone
SeedKey_Plain(a, seed, vert_count) == a

\* tri_verts_less_pred: the sort key of a vertex relative to the seed
SeedKey(a, seed, vert_count) == IF a < seed THEN vert_count + a ELSE a

RECURSIVE SortByKey(_, _, _)
SortByKey(S, seed, vert_count) ==
    IF S = {} THEN <<>>
    ELSE LET m == CHOOSE a \in S :
                      \A b \in S : SeedKey(a, seed, vert_count) <= SeedKey(b, seed, vert_count)
         IN  <<m>> \o SortByKey(S \ {m}, seed, vert_count)

MapVertices(vertices, poly) == [i \in 1..Len(poly) |-> At0(vertices, poly[i])]

RemoveAt0(s, idxs) ==
    LET keep == [i \in 0..(Len(s) - 1) |-> i \notin idxs]
    IN  SelectSeq([i \in 1..Len(s) |-> <<i - 1, s[i]>>], LAMBDA e : keep[e[1]])

RECURSIVE CompressLoop(_, _, _, _, _)
CompressLoop(triangles, vertices, tris_compiled, order, bad) ==
    IF triangles = <<>> THEN [faces |-> tris_compiled, bad |-> bad]
    ELSE LET fan == find_best_fan(triangles, Len(vertices))
         IN  IF Len(fan) = 0 THEN [faces |-> tris_compiled, bad |-> TRUE]
             ELSE IF Len(fan) = 1
             THEN [faces |-> tris_compiled \o
                             [i \in 1..Len(triangles) |-> MapVertices(vertices, triangles[i])],
                   bad |-> bad]
             ELSE LET seed == find_seed_vertex(triangles, fan, order)
                      verts == UNION {Range(At0(triangles, fan[i])) : i \in 1..Len(fan)}
                      out_tri == MapVertices(vertices, SortByKey(verts, seed, Len(vertices)))
                      left == RemoveAt0(triangles, Range(fan))
                  IN  CompressLoop([i \in 1..Len(left) |-> left[i][2]], vertices,
                                   Append(tris_compiled, out_tri), order,
                                   bad \/ Cardinality(verts) < 3)

compress_triangles_into_fans(triangles, vertices, order) ==
    CompressLoop(triangles, vertices, <<>>, order, FALSE)

\* mwt_face; ntris is what it adds to stats.trimwt
mwt_face(sc, vertices, order) ==
    LET tris == minimum_weight_triangulation(sc, vertices)
        c == compress_triangles_into_fans(tris, vertices, order)
    IN  [faces |-> c.faces, ntris |-> Len(tris),
         bad |-> c.bad \/ Len(tris) # Len(vertices) - 2]

-----------------------------------------------------------------------------
(* T-junction pass: FixFaceEdges *)
\* (mutant) the rotation is tried whatever mwt_face returned
FixFaceEdgesChoose_NoGate(superface, level, m, i, retopology) ==
    LET n == Len(superface)
        st1 == IF Len(m.faces) > 0
               THEN Bump(Bump(Bump(ZeroStats, "trimwt", m.ntris), "mwt", 1),
                         "facemwt", Len(m.faces) - 1)
               ELSE Bump(ZeroStats, "trimwt", m.ntris)
    IN  IF level < ROTATE
        THEN [faces |-> <<superface>>, stats |-> st1, bad |-> m.bad]
        ELSE IF i = n
        THEN IF Len(retopology) > 1
             THEN [faces |-> retopology,
                   stats |-> Bump(Bump(st1, "retopology", 1),
                                  "faceretopology", Len(retopology) - 1),
                   bad |-> m.bad]
             ELSE [faces |-> <<superface>>, stats |-> Bump(st1, "norotates", 1), bad |-> m.bad]
        ELSE IF i # 0
        THEN [faces |-> <<Rotate0(superface, i)>>, stats |-> Bump(st1, "rotates", 1),
              bad |-> m.bad]
        ELSE [faces |-> <<superface>>, stats |-> st1, bad |-> m.bad]

\* the choice FixFaceEdges makes between the outcomes of its repair steps:
\* m is mwt_face's result, i the first valid rotation (n when none is),
\* retopology the fans of RetopologizeFace
FixFaceEdgesChoose(superface, level, m, i, retopology) ==
    LET n == Len(superface)
        st1 == IF Len(m.faces) > 0
               THEN Bump(Bump(Bump(ZeroStats, "trimwt", m.ntris), "mwt", 1),
                         "facemwt", Len(m.faces) - 1)
               ELSE Bump(ZeroStats, "trimwt", m.ntris)
    IN  IF Len(m.faces) > 0 \/ level < ROTATE
        THEN [faces |-> IF Len(m.faces) > 0 THEN m.faces ELSE <<superface>>,
              stats |-> st1, bad |-> m.bad]
        ELSE IF i = n
        THEN IF Len(retopology) > 1
             THEN [faces |-> retopology,
                   stats |-> Bump(Bump(st1, "retopology", 1),
                                  "faceretopology", Len(retopology) - 1),
                   bad |-> m.bad]
             ELSE [faces |-> <<superface>>, stats |-> Bump(st1, "norotates", 1), bad |-> m.bad]
        ELSE IF i # 0
        THEN [faces |-> <<Rotate0(superface, i)>>, stats |-> Bump(st1, "rotates", 1),
              bad |-> m.bad]
        ELSE [faces |-> <<superface>>, stats |-> st1, bad |-> m.bad]

\* the repair steps FixFaceEdges runs on a superface of more than 3 vertices,
\* in the order it runs them: m is mwt_face's result when it was called, i
\* the first valid rotation
RepairSteps(superface, level, m, i) ==
    (IF level >= MWT THEN <<"mwt_face">> ELSE <<>>)
    \o (IF Len(m.faces) = 0 /\ level >= ROTATE
        THEN <<"rotate">> \o (IF i = Len(superface) /\ level >= RETOPOLOGIZE
                              THEN <<"RetopologizeFace">> ELSE <<>>)
        ELSE <<>>)

\* the repair steps of FixFaceEdges on a superface of more than 3 vertices:
\* the polygons `faces` and the counters raised
FixFaceEdgesRepair(sc, superface, level, order) ==
    FixFaceEdgesChoose(superface, level,
        IF level >= MWT THEN mwt_face(sc, superface, order)
        ELSE [faces |-> <<>>, ntris |-> 0, bad |-> FALSE],
        FirstValidRotation(sc, superface),
        IF level >= RETOPOLOGIZE THEN RetopologizeFace(sc, superface) ELSE <<>>)

\* (mutant) a collapsed superface is stored as a fragment
FixFaceEdgesEmit_KeepCollapsed(origf, level, s, r, sp) ==
    IF level = NONE
    THEN [frags |-> <<origf>>, stats |-> ZeroStats, fatal |-> FALSE]
    ELSE IF Len(s.sf) <= 3
    THEN [frags |-> <<s.sf>>, stats |-> s.stats, fatal |-> FALSE]
    ELSE [frags |-> sp.faces,
          stats |-> Bump(AddStats(s.stats, r.stats), "faceoverflows", sp.overflows),
          fatal |-> FALSE]

\* what FixFaceEdges stores: s is CreateSuperFace's result, r the repair's,
\* sp the edge-count split's.  fatal: a Q_assert failed (the program ends)
FixFaceEdgesEmit(origf, level, s, r, sp) ==
    IF level = NONE
    THEN [frags |-> <<origf>>, stats |-> ZeroStats, fatal |-> FALSE]
    ELSE IF Len(s.sf) < 3
    THEN [frags |-> <<>>, stats |-> Bump(s.stats, "facecollapse", 1), fatal |-> FALSE]
    ELSE IF Len(s.sf) = 3
    THEN [frags |-> <<origf>>, stats |-> s.stats, fatal |-> FALSE]
    ELSE [frags |-> sp.faces,
          stats |-> Bump(AddStats(s.stats, r.stats), "faceoverflows", sp.overflows),
          fatal |-> r.bad \/ sp.bad \/ \E k \in 1..Len(sp.faces) : Len(sp.faces[k]) < 3]

FixFaceEdgesSplit(origf, level, maxedges, s, r) ==
    FixFaceEdgesEmit(origf, level, s, r,
        IF maxedges # 0 THEN SplitAll(r.faces, 1, maxedges, 0, FALSE)
        ELSE [faces |-> r.faces, overflows |-> 0, bad |-> FALSE])

FixFaceEdgesOnSuper(sc, origf, level, maxedges, order, s) ==
    FixFaceEdgesSplit(origf, level, maxedges, s, FixFaceEdgesRepair(sc, s.sf, level, order))

\* (mutant) the level is not looked at
FixFaceEdges_AlwaysRepair(sc, orig, f, level, maxedges, order) ==
    FixFaceEdgesOnSuper(sc, orig[f], ROTATE, maxedges, order, CreateSuperFace(sc, orig, f))

\* the result of the function for one face: the fragments it appends to
\* f->fragments, the counters it raises, and whether a Q_assert failed
FixFaceEdges(sc, orig, f, level, maxedges, order) ==
    FixFaceEdgesOnSuper(sc, orig[f], level, maxedges, order, CreateSuperFace(sc, orig, f))

-----------------------------------------------------------------------------
(* T-junction pass: TJunc and its parallel for-each over the faces *)

SetOrders == {"ascending", "descending"}

TjInit ==
    /\ phase = "tjunc"
    /\ tjScene \in 1..Len(Scenes)
    /\ tjLevel \in TjuncLevels
    /\ tjMaxedges \in MaxedgesValues
    /\ tjOrder \in SetOrders
    /\ tjRun = "init"
    /\ tjOrig = Scenes[tjScene].orig
    /\ tjFrags = [f \in TjFaces(tjScene) |-> <<>>]
    /\ tjStats = ZeroStats
    /\ tjPc = [f \in TjFaces(tjScene) |-> "idle"]
    /\ tjLocal = [f \in TjFaces(tjScene) |-> <<>>]
    /\ PlIdle /\ HvIdle /\ MgIdle /\ PoIdle /\ ArIdle

TjIdle ==
    /\ tjScene = 0 /\ tjLevel = NONE /\ tjMaxedges = 0 /\ tjOrder = "ascending"
    /\ tjRun = "off" /\ tjOrig = <<>> /\ tjFrags = <<>> /\ tjStats = ZeroStats
    /\ tjPc = <<>> /\ tjLocal = <<>>

\* FindFaces_r: the faces of the interior nodes that still have vertices
RECURSIVE FindFaces_r(_, _, _)
FindFaces_r(sc, orig, node) ==
    IF TjIsLeaf(node) THEN {}
    ELSE {f \in Range(Scenes[sc].facelist[node]) : Len(orig[f]) > 0}
         \cup FindFaces_r(sc, orig, TjChildren(node)[1])
         \cup FindFaces_r(sc, orig, TjChildren(node)[2])

\* TJunc up to the start of the parallel loop
TJuncBegin ==
    /\ phase = "tjunc" /\ tjRun = "init"
    /\ tjRun' = "running"
    /\ tjPc' = [f \in TjFaces(tjScene) |->
                   IF f \in FindFaces_r(tjScene, tjOrig, 1) THEN "queued" ELSE "skipped"]
    /\ UNCHANGED <<notTj, tjScene, tjLevel, tjMaxedges, tjOrder, tjOrig, tjFrags, tjStats, tjLocal>>

\* one task of the parallel loop, up to the point where it has its result in
\* local storage: everything it reads of the shared state is read here
FixFaceEdgesCompute(f) ==
    /\ phase = "tjunc" /\ tjRun = "running" /\ tjPc[f] = "queued"
    /\ tjLocal' = [tjLocal EXCEPT ![f] =
                      FixFaceEdges(tjScene, tjOrig, f, tjLevel, tjMaxedges, tjOrder)]
    /\ tjPc' = [tjPc EXCEPT ![f] = "computed"]
    /\ UNCHANGED <<notTj, tjScene, tjLevel, tjMaxedges, tjOrder, tjRun, tjOrig, tjFrags, tjStats>>

\* (mutant) every task appends to the fragments of the first face
StoreTarget_Shared(f) == 1

\* the face whose fragments list a task appends to
StoreTarget(f) == f

\* the end of a task: the fragments are moved into the face and the atomic
\* counters raised; a failed Q_assert ends the program instead
FixFaceEdgesStore(f) ==
    /\ phase = "tjunc" /\ tjRun = "running" /\ tjPc[f] = "computed"
    /\ IF tjLocal[f].fatal
       THEN /\ tjRun' = "aborted"
            /\ UNCHANGED <<tjFrags, tjStats, tjPc>>
       ELSE /\ tjFrags' = [tjFrags EXCEPT ![StoreTarget(f)] = @ \o tjLocal[f].frags]
            /\ tjStats' = AddStats(tjStats, tjLocal[f].stats)
            /\ tjPc' = [tjPc EXCEPT ![f] = "stored"]
            /\ UNCHANGED tjRun
    /\ UNCHANGED <<notTj, tjScene, tjLevel, tjMaxedges, tjOrder, tjOrig, tjLocal>>

\* the loop has joined: TJunc prints the counters and returns
TJuncEnd ==
    /\ phase = "tjunc" /\ tjRun = "running"
    /\ \A f \in TjFaces(tjScene) : tjPc[f] \in {"stored", "skipped"}
    /\ tjRun' = "done"
    /\ UNCHANGED <<notTj, tjScene, tjLevel, tjMaxedges, tjOrder, tjOrig, tjFrags, tjStats, tjPc,
                   tjLocal>>

TjNext ==
    \/ TJuncBegin
    \/ \E f \in TjFaces(tjScene) : FixFaceEdgesCompute(f)
    \/ \E f \in TjFaces(tjScene) : FixFaceEdgesStore(f)
    \/ TJuncEnd

SpecTJunc == TjInit /\ [][TjNext]_vars

-----------------------------------------------------------------------------
(* T-junction pass: properties *)

TjStored(f) == phase = "tjunc" /\ f \in DOMAIN tjPc /\ tjPc[f] = "stored"

TjAllFaces == IF phase = "tjunc" THEN TjFaces(tjScene) ELSE {}

\* some vertex of the vertex table lies strictly between a and b, within
\* DEFAULT_ON_EPSILON of the line through them
EdgeHasTJunction(sc, a, b) ==
    \E v \in 1..Len(Scenes[sc].dv) :
        /\ v # a /\ v # b
        /\ PointOnEdge(SceneUnit(sc), Dvertex(sc, v), Dvertex(sc, a),
                       VSub(Dvertex(sc, b), Dvertex(sc, a)),
                       0, VLen2(VSub(Dvertex(sc, b), Dvertex(sc, a)))).has

\* the edges of a polygon, closing edge included
PolyEdges(poly) == {<<At0(poly, i), At0(poly, (i + 1) % Len(poly))>> : i \in 0..(Len(poly) - 1)}

\* C1 (as claimed, at the levels that reach the edge-count split): with
\* maxedges > 0 every fragment stored on a face by FixFaceEdges has at most
\* maxedges vertices, however many polygons the repair step produced.
C1_FragmentsWithinMaxedges ==
    \A f \in TjAllFaces :
        (TjStored(f) /\ tjMaxedges > 0 /\ tjLevel # NONE /\ Len(CreateSuperFace(tjScene, tjOrig, f).sf) > 3)
            => \A k \in 1..Len(tjFrags[f]) : Len(tjFrags[f][k]) <= tjMaxedges

C5_TasksIndependent ==
    phase = "tjunc" =>
        /\ tjOrig = Scenes[tjScene].orig
        /\ \A f \in TjAllFaces :
               tjFrags[f] = IF tjPc[f] = "stored"
                            THEN FixFaceEdges(tjScene, Scenes[tjScene].orig, f, tjLevel,
                                              tjMaxedges, tjOrder).frags
                            ELSE <<>>
        /\ tjRun = "done" =>
               \A n \in StatNames :
                   tjStats[n] = SumSeq([f \in 1..Len(tjOrig) |->
                                   IF tjPc[f] = "stored"
                                   THEN FixFaceEdges(tjScene, Scenes[tjScene].orig, f, tjLevel,
                                                     tjMaxedges, tjOrder).stats[n]
                                   ELSE 0])

\* two tasks have both read the shared state before either stored, and the
\* pass went on to finish with several fragments on a face
C5_Witness ==
    /\ phase = "tjunc" /\ tjRun = "running"
    /\ \E f, g \in TjAllFaces : f # g /\ tjPc[f] = "computed" /\ tjPc[g] = "stored"
                                 /\ Len(tjFrags[g]) > 1

-----------------------------------------------------------------------------
(* Plane registry (map.hh): mapdata_t::planes and the calls that fill it.
   Plane ids are 0-based: id i is planes[i + 1] here.  A plane is
   [normal |-> <<x, y, z>>, dist |-> d] on an integer lattice. *)

MaxPlanePairs == 3

Abs(x) == IF x < 0 THEN -x ELSE x

\* qplane3d::operator-
Negate(plane) ==
    [normal |-> <<-plane.normal[1], -plane.normal[2], -plane.normal[3]>>, dist |-> -plane.dist]

\* qbsp_plane_t::get_type: 0..2 for a normal along an axis, 3..5 for the
\* dominant axis of any other normal, so that type % 3 is the axis
get_type(plane) ==
    LET n == plane.normal
    IN  IF n[2] = 0 /\ n[3] = 0 THEN 0
        ELSE IF n[1] = 0 /\ n[3] = 0 THEN 1
        ELSE IF n[1] = 0 /\ n[2] = 0 THEN 2
        ELSE IF Abs(n[1]) >= Abs(n[2]) /\ Abs(n[1]) >= Abs(n[3]) THEN 3
        ELSE IF Abs(n[2]) >= Abs(n[1]) /\ Abs(n[2]) >= Abs(n[3]) THEN 4
        ELSE 5

\* the test of add_plane: the normal's component along the plane's axis
DominantComponent(plane) == plane.normal[(get_type(plane) % 3) + 1]

\* qv::epsilonEqual on planes: on this lattice two normals within the normal
\* epsilon are the same lattice vector, and distances may differ by one step
PlaneEpsilonEqual(a, b) == a.normal = b.normal /\ Abs(a.dist - b.dist) <= 1

\* (mutant) the two orientations are stored as they were appended
add_plane_pair_unswapped(plane, swap) == <<plane, Negate(plane)>>

\* add_plane: the two entries appended, after the std::swap when it is made
add_plane_pair(plane, swap) ==
    IF swap THEN <<Negate(plane), plane>> ELSE <<plane, Negate(plane)>>

\* (mutant) the id of the first of the two new entries, whichever was given
add_plane_ret_even(size, swap) == size - 2

\* add_plane: the id returned, size being planes.size() after the appends
add_plane_ret(size, swap) == IF swap THEN size - 1 ELSE size - 2

add_plane(pl, plane) ==
    LET swap == DominantComponent(plane) < 0
        after == pl \o add_plane_pair(plane, swap)
    IN  [planes |-> after, ret |-> add_plane_ret(Len(after), swap)]

\* the loop of find_plane and add_or_find_plane: ids of the matching planes
PlaneMatches(pl, plane) == {i \in 0..(Len(pl) - 1) : PlaneEpsilonEqual(pl[i + 1], plane)}

\* find_plane: ret is the first matching id; threw when there is none
find_plane(pl, plane) ==
    LET hits == PlaneMatches(pl, plane)
    IN  IF hits = {} THEN [ret |-> -1, threw |-> TRUE] ELSE [ret |-> Min(hits), threw |-> FALSE]

add_or_find_plane(pl, plane) ==
    LET hits == PlaneMatches(pl, plane)
    IN  IF hits = {} THEN add_plane(pl, plane) ELSE [planes |-> pl, ret |-> Min(hits)]

\* the planes the calls are made with: axial and non-axial, in positive and
\* negative orientation, a plane and its negation, and two planes one
\* distance step apart
PlaneInputs ==
    { [normal |-> <<4, 0, 0>>, dist |-> 8],  [normal |-> <<4, 0, 0>>, dist |-> 9],
      [normal |-> <<-4, 0, 0>>, dist |-> -8], [normal |-> <<0, -4, 0>>, dist |-> 0],
      [normal |-> <<-3, -2, 1>>, dist |-> 4], [normal |-> <<1, -2, 3>>, dist |-> -4],
      [normal |-> <<2, -3, 0>>, dist |-> 8] }

PlInit ==
    /\ phase = "planes"
    /\ planes = <<>> /\ plLast = NoCall
    /\ TjIdle /\ HvIdle /\ MgIdle /\ PoIdle /\ ArIdle

AddPlane(plane) ==
    /\ phase = "planes" /\ Len(planes) < 2 * MaxPlanePairs
    /\ planes' = add_plane(planes, plane).planes
    /\ plLast' = [op |-> "add_plane", plane |-> plane, ret |-> add_plane(planes, plane).ret,
                  threw |-> FALSE]
    /\ UNCHANGED notPl

AddOrFindPlane(plane) ==
    /\ phase = "planes"
    /\ Len(planes) < 2 * MaxPlanePairs \/ PlaneMatches(planes, plane) # {}
    /\ planes' = add_or_find_plane(planes, plane).planes
    /\ plLast' = [op |-> "add_or_find_plane", plane |-> plane,
                  ret |-> add_or_find_plane(planes, plane).ret, threw |-> FALSE]
    /\ UNCHANGED notPl

FindPlane(plane) ==
    /\ phase = "planes"
    /\ plLast' = [op |-> "find_plane", plane |-> plane, ret |-> find_plane(planes, plane).ret,
                  threw |-> find_plane(planes, plane).threw]
    /\ UNCHANGED <<notPl, planes>>

PlNext ==
    \/ \E plane \in PlaneInputs : AddPlane(plane)
    \/ \E plane \in PlaneInputs : AddOrFindPlane(plane)
    \/ \E plane \in PlaneInputs : FindPlane(plane)

SpecPlanes == PlInit /\ [][PlNext]_vars

-----------------------------------------------------------------------------
(* Plane registry: properties *)

\* id ^ 1
PlaneTwin(id) == IF id % 2 = 0 THEN id + 1 ELSE id - 1

\* C7 (as claimed): add_plane returns the id of the positive orientation,
\* the one whose component along the dominant axis is not negative,
\* whichever orientation it was given.
C7_AddPlaneReturnsPositive ==
    plLast.op = "add_plane" => DominantComponent(planes[plLast.ret + 1]) >= 0

\* C7 (amended): add_plane appends the plane and its negation as the last
\* two entries, the positive orientation at the even id, and returns the
\* id at which the plane it was given is stored: the even id for a plane
\* given in positive orientation, the odd id for one given in negative.
C7_AddPlaneReturnsOwnId ==
    plLast.op = "add_plane" =>
        /\ Len(planes) >= 2
        /\ {planes[Len(planes) - 1], planes[Len(planes)]} = {plLast.plane, Negate(plLast.plane)}
        /\ DominantComponent(planes[Len(planes) - 1]) >= 0
        /\ plLast.ret \in {Len(planes) - 2, Len(planes) - 1}
        /\ planes[plLast.ret + 1] = plLast.plane
        /\ (plLast.ret % 2 = 0) <=> (DominantComponent(plLast.plane) >= 0)

\* add_plane was called on a non-empty table with a plane in negative
\* orientation
C7_Witness ==
    /\ plLast.op = "add_plane" /\ Len(planes) >= 4
    /\ DominantComponent(plLast.plane) < 0

\* C8: after any sequence of calls the table has even length, planes[id ^ 1]
\* is the negation of planes[id] for every id, and every even id holds the
\* orientation whose component along the dominant axis is not negative.
C8_PlaneTableInvariant ==
    phase = "planes" =>
        /\ Len(planes) % 2 = 0
        /\ \A id \in 0..(Len(planes) - 1) :
               /\ planes[PlaneTwin(id) + 1] = Negate(planes[id + 1])
               /\ id % 2 = 0 => DominantComponent(planes[id + 1]) >= 0

\* add_or_find_plane has found a plane at an odd id in a table of at least
\* two pairs, one of them stored swapped
C8_Witness ==
    /\ plLast.op = "add_or_find_plane" /\ plLast.ret % 2 = 1 /\ Len(planes) >= 4
    /\ plLast.ret < Len(planes) - 2
    /\ \E id \in 0..(Len(planes) - 1) : id % 2 = 1 /\ planes[id + 1] \in PlaneInputs

-----------------------------------------------------------------------------
(* Vertex hash (map.hh): mapdata_t::hashverts.  Coordinates are fixed-point,
   HashUnit steps to one unit of length, so that floor() is a division that
   rounds down and points on both sides of a cell boundary exist. *)

MaxInserts == 3

HashUnit == 4

PointEqualEpsilon == 1

\* floor() of a fixed-point coordinate
Floor(x) == x \div HashUnit

\* the key of find_hash_vector: the cell of a point
HashCell(point) == <<Floor(point[1]), Floor(point[2]), Floor(point[3])>>

\* qv::epsilonEqual on points
PointEpsilonEqual(a, b) ==
    \A k \in 1..3 : Abs(a[k] - b[k]) <= PointEqualEpsilon

\* find_hash_vector: the bucket of the point's cell, <<>> standing for end()
find_hash_vector(hv, vec) ==
    IF HashCell(vec) \in DOMAIN hv THEN hv[HashCell(vec)] ELSE <<>>

\* find_emitted_hash_vector: num of the first entry of the bucket within
\* epsilon of vert, or -1 for std::nullopt
find_emitted_hash_vector(hv, vert) ==
    LET bucket == find_hash_vector(hv, vert)
        hits == {i \in 1..Len(bucket) : PointEpsilonEqual(bucket[i].point, vert)}
    IN  IF hits = {} THEN -1 ELSE bucket[Min(hits)].num

\* (mutant) the point is recorded in its own cell only
HashNeighbours_OwnCell(point) == {HashCell(point)}

\* the 27 cells add_hash_vector writes to
HashNeighbours(point) ==
    {<<Floor(point[1]) + x, Floor(point[2]) + y, Floor(point[3]) + z>> :
        x \in -1..1, y \in -1..1, z \in -1..1}

\* (mutant) the entry is put at the end of the bucket
push_back(bucket, entry) == Append(bucket, entry)

\* std::list::push_front
push_front(bucket, entry) == <<entry>> \o bucket

add_hash_vector(hv, point, num) ==
    [h \in DOMAIN hv \cup HashNeighbours(point) |->
        IF h \in HashNeighbours(point)
        THEN push_front(IF h \in DOMAIN hv THEN hv[h] ELSE <<>>, [point |-> point, num |-> num])
        ELSE hv[h]]

\* points on both sides of the cell boundary x = 1, within epsilon of each
\* other and not, with negative coordinates, and far apart
HashPoints ==
    { <<3, 0, 0>>, <<4, 0, 0>>, <<5, 1, 0>>, <<-1, 0, 3>>, <<9, 9, 9>> }

\* the output vertex numbers the points are stored under
HashNums == {0, 1}

\* the points looked up: the stored ones and points within epsilon of them
\* whose cell differs on one, two and three axes
HashQueries ==
    HashPoints \cup { <<4, 1, 0>>, <<4, 0, -1>>, <<0, -1, 4>>, <<0, 0, 4>>, <<8, 8, 8>> }

\* the points find_emitted_hash_vector is called with
HashLookups ==
    { <<3, 0, 0>>, <<4, 1, 0>>, <<4, 0, -1>>, <<0, -1, 4>>, <<9, 9, 9>> }

HvInit ==
    /\ phase = "hashverts"
    /\ hashverts = <<>> /\ hvLast = NoCall
    /\ TjIdle /\ PlIdle /\ MgIdle /\ PoIdle /\ ArIdle

AddHashVector(point, num) ==
    /\ phase = "hashverts"
    /\ hvLast.count < MaxInserts
    /\ hashverts' = add_hash_vector(hashverts, point, num)
    /\ hvLast' = [op |-> "add_hash_vector", point |-> point, num |-> num,
                  count |-> hvLast.count + 1]
    /\ UNCHANGED notHv

FindEmittedHashVector(vert) ==
    /\ phase = "hashverts" /\ hvLast.op # "none"
    /\ hvLast' = [op |-> "find_emitted_hash_vector", point |-> vert,
                  num |-> find_emitted_hash_vector(hashverts, vert), count |-> hvLast.count]
    /\ UNCHANGED <<notHv, hashverts>>

HvNext ==
    \/ \E point \in HashPoints, num \in HashNums : AddHashVector(point, num)
    \/ \E vert \in HashLookups : FindEmittedHashVector(vert)

SpecHash == HvInit /\ [][HvNext]_vars

-----------------------------------------------------------------------------
(* Vertex hash: properties *)

\* C9: immediately after add_hash_vector(point, num) a lookup of the same
\* point returns num, whatever was inserted before.
C9_HashRoundTrip ==
    hvLast.op = "add_hash_vector" =>
        find_emitted_hash_vector(hashverts, hvLast.point) = hvLast.num

\* a point was added under a new number while an earlier entry within
\* epsilon of it, from the neighbouring cell, is in the same bucket
C9_Witness ==
    /\ hvLast.op = "add_hash_vector"
    /\ \E i \in 2..Len(find_hash_vector(hashverts, hvLast.point)) :
           LET e == find_hash_vector(hashverts, hvLast.point)[i]
           IN  /\ e.num # hvLast.num
               /\ PointEpsilonEqual(e.point, hvLast.point)
               /\ HashCell(e.point) # HashCell(hvLast.point)

\* every entry of the hash, whatever bucket it is in
HashStored == UNION {Range(hashverts[h]) : h \in DOMAIN hashverts}

\* a query within epsilon of a stored vertex finds a vertex
HashFindsStored ==
    \A q \in HashQueries :
        (\E e \in HashStored : PointEpsilonEqual(e.point, q)) =>
            find_emitted_hash_vector(hashverts, q) # -1

\* an insert becomes the answer of every query within epsilon of the new
\* point and leaves the answer of every other query as it was
HashInsertIsNewest(point, num) ==
    \A q \in HashQueries :
        find_emitted_hash_vector(hashverts', q) =
            IF PointEpsilonEqual(point, q) THEN num
            ELSE find_emitted_hash_vector(hashverts, q)

\* add_hash_vector has just run: it alone advances the count of inserts
HashInserted == hvLast'.count # hvLast.count

\* C21: a query within POINT_EQUAL_EPSILON of a stored vertex finds a vertex
\* even when their cells differ, and what it returns is the number of the most
\* recently inserted vertex within epsilon of the query (each insert takes
\* over exactly the queries within epsilon of its point).
C21_LookupAcrossCells ==
    [][HashInserted =>
          /\ HashInsertIsNewest(hvLast'.point, hvLast'.num)
          /\ HashFindsStored']_vars

\* a lookup returned the number of a vertex of another cell while an older
\* vertex within epsilon of the query, under another number, is in the bucket
C21_Witness ==
    /\ hvLast.op = "find_emitted_hash_vector"
    /\ hvLast.num # -1
    /\ \E i, j \in 1..Len(find_hash_vector(hashverts, hvLast.point)) :
           LET b == find_hash_vector(hashverts, hvLast.point)
           IN  /\ i < j
               /\ PointEpsilonEqual(b[i].point, hvLast.point)
               /\ PointEpsilonEqual(b[j].point, hvLast.point)
               /\ HashCell(b[i].point) # HashCell(hvLast.point)
               /\ b[i].num = hvLast.num /\ b[j].num # hvLast.num
               /\ \A k \in 1..(i - 1) : ~PointEpsilonEqual(b[k].point, hvLast.point)

-----------------------------------------------------------------------------
(* Coplanar merge (merge.cc).  A face is a record of its winding w (points
   of a 3D integer lattice) and the attributes TryMerge reads; NoFace stands
   for NULL.  The plane of a face is read from the registry `planes`. *)

MaxMergeFaces == 4

NoFace == [w |-> <<>>, planenum |-> -1, planeside |-> 0, texinfo |-> -1, contents |-> -1,
           lmshift |-> -1]

V3Sub(a, b) == <<a[1] - b[1], a[2] - b[2], a[3] - b[3]>>

V3Dot(a, b) == a[1] * b[1] + a[2] * b[2] + a[3] * b[3]

V3Cross(a, b) ==
    <<a[2] * b[3] - a[3] * b[2], a[3] * b[1] - a[1] * b[3], a[1] * b[2] - a[2] * b[1]>>

\* the pairs <<i, j>> for which edge i of f1 is edge j of f2 reversed.  The
\* lattice step is far above EQUAL_EPSILON: points within it are equal
CommonEdges(f1, f2) ==
    {e \in (0..(Len(f1.w) - 1)) \X (0..(Len(f2.w) - 1)) :
        /\ At0(f1.w, e[1]) = At0(f2.w, (e[2] + 1) % Len(f2.w))
        /\ At0(f1.w, (e[1] + 1) % Len(f1.w)) = At0(f2.w, e[2])}

\* the first pair the two nested loops of TryMerge reach
FirstCommonEdge(f1, f2) ==
    CHOOSE e \in CommonEdges(f1, f2) :
        \A d \in CommonEdges(f1, f2) : e[1] < d[1] \/ (e[1] = d[1] /\ e[2] <= d[2])

\* the windings of the new face: f1 from k round to i, then f2 from l to j
CopyRound(w, from, to) ==
    [x \in 1..((to - from + Len(w)) % Len(w)) |-> At0(w, (from + x - 1) % Len(w))]

\* the attribute test at the head of TryMerge
AttributesDiffer(f1, f2) ==
    \/ f1.planeside # f2.planeside \/ f1.texinfo # f2.texinfo
    \/ f1.contents # f2.contents \/ f1.lmshift # f2.lmshift

\* (mutant) the limit is tested on the vertices left when the shared edge
\* is dropped
TooManyEdges_Result(n1, n2, maxEdges) == n1 + n2 - 2 > maxEdges

\* the edge limit of TryMerge: f1->w.size() + f2->w.size() > MAXEDGES
TooManyEdges(n1, n2, maxEdges) == n1 + n2 > maxEdges

\* TryMerge, after the common edge <<i, j>> was found.  The bends are tested
\* by sign: on the lattice a non-zero dot product is far above
\* CONTINUOUS_EPSILON after the normal is normalised
TryMergeAt(pl, f1, f2, maxEdges, i, j) ==
    LET n1 == Len(f1.w)
        n2 == Len(f2.w)
        p1 == At0(f1.w, i)
        p2 == At0(f1.w, (i + 1) % n1)
        pn == pl[f1.planenum + 1].normal
        planenormal == IF f1.planeside = 1 THEN <<-pn[1], -pn[2], -pn[3]>> ELSE pn
        normal1 == V3Cross(planenormal, V3Sub(p1, At0(f1.w, (i + n1 - 1) % n1)))
        dot1 == V3Dot(V3Sub(At0(f2.w, (j + 2) % n2), p1), normal1)
        normal2 == V3Cross(planenormal, V3Sub(At0(f1.w, (i + 2) % n1), p2))
        dot2 == V3Dot(V3Sub(At0(f2.w, (j + n2 - 1) % n2), p2), normal2)
        k == IF dot2 < 0 THEN (i + 1) % n1 ELSE (i + 2) % n1
        l == IF dot1 < 0 THEN (j + 1) % n2 ELSE (j + 2) % n2
    IN  IF dot1 > 0 \/ dot2 > 0 THEN NoFace
        ELSE IF TooManyEdges(n1, n2, maxEdges) THEN NoFace
        ELSE [f1 EXCEPT !.w = CopyRound(f1.w, k, i) \o CopyRound(f2.w, l, j)]

TryMerge(pl, f1, f2, maxEdges) ==
    IF Len(f1.w) = 0 \/ Len(f2.w) = 0 \/ AttributesDiffer(f1, f2) THEN NoFace
    ELSE IF CommonEdges(f1, f2) = {} THEN NoFace
    ELSE TryMergeAt(pl, f1, f2, maxEdges, FirstCommonEdge(f1, f2)[1], FirstCommonEdge(f1, f2)[2])

\* (mutant) after a merge the scan goes on with the next face of the list
RescanFrom_Next(idx) == idx + 1

\* after a merge the scan starts again at the head of the list (f = list)
RescanFrom(idx) == 1

\* MergeFaceToList: the while loop from position idx of `list` (head first);
\* log collects the pairs merged
RECURSIVE MergeFaceToListFrom(_, _, _, _, _, _)
MergeFaceToListFrom(pl, face, list, maxEdges, idx, log) ==
    IF idx > Len(list) THEN [list |-> <<face>> \o list, log |-> log]
    ELSE IF TryMerge(pl, face, list[idx], maxEdges) # NoFace
    THEN MergeFaceToListFrom(pl, TryMerge(pl, face, list[idx], maxEdges),
                             [list EXCEPT ![idx].w = <<>>], maxEdges, RescanFrom(idx),
                             Append(log, <<face, list[idx]>>))
    ELSE MergeFaceToListFrom(pl, face, list, maxEdges, idx + 1, log)

MergeFaceToList(pl, face, list, maxEdges) ==
    MergeFaceToListFrom(pl, face, list, maxEdges, 1, <<>>)

\* FreeMergeListScraps: the emptied faces are freed, the others pushed one
\* by one onto a new head
RECURSIVE FreeMergeListScraps(_, _)
FreeMergeListScraps(merged, head) ==
    IF merged = <<>> THEN head
    ELSE FreeMergeListScraps(Tail(merged),
                             IF Len(Head(merged).w) = 0 THEN head ELSE <<Head(merged)>> \o head)

\* the registry the faces' planenum refers to: the floor z = 0 (ids 0, 1)
\* and the wall y = 0 (ids 2, 3)
MergeRegistry ==
    add_plane(add_plane(<<>>, [normal |-> <<0, 0, 4>>, dist |-> 0]).planes,
              [normal |-> <<0, 4, 0>>, dist |-> 0]).planes

MergeFace(w, planenum, texinfo) ==
    [w |-> w, planenum |-> planenum, planeside |-> 0, texinfo |-> texinfo, contents |-> 0,
     lmshift |-> 4]

\* a unit square of the floor, wound clockwise seen from the front
FloorSquare(x, y) == <<<<x, y, 0>>, <<x, y + 1, 0>>, <<x + 1, y + 1, 0>>, <<x + 1, y, 0>>>>

\* the faces of one surface (plane 0): four squares of a 2 x 2 block, a
\* triangle next to it, and a square with another texture
MergePool ==
    { MergeFace(FloorSquare(0, 0), 0, 0), MergeFace(FloorSquare(1, 0), 0, 0),
      MergeFace(FloorSquare(0, 1), 0, 0), MergeFace(FloorSquare(1, 1), 0, 0),
      MergeFace(<<<<2, 1, 0>>, <<3, 0, 0>>, <<2, 0, 0>>>>, 0, 0),
      MergeFace(FloorSquare(0, -1), 0, 1) }

\* the values of MAXEDGES the merge is run with
MaxEdgesValues == {7, 64}

\* the lists of distinct faces a surface can hold
RECURSIVE FaceLists(_)
FaceLists(n) ==
    IF n = 0 THEN {<<>>}
    ELSE FaceLists(n - 1) \cup
         {Append(l, f) : l \in {x \in FaceLists(n - 1) : Len(x) = n - 1},
                         f \in MergePool}

HasNoRepeat(l) == \A a, b \in 1..Len(l) : a # b => l[a] # l[b]

MgInit ==
    /\ phase = "merge"
    /\ mgMaxEdges \in MaxEdgesValues
    /\ mgRest \in {l \in FaceLists(MaxMergeFaces) : Len(l) > 0 /\ HasNoRepeat(l)}
    /\ mgMerged = <<>> /\ mgPc = "run1" /\ mgFirst = <<>> /\ mgMerges = <<>>
    /\ mgTry = NoCall
    /\ planes = MergeRegistry /\ plLast = NoCall
    /\ TjIdle /\ HvIdle /\ PoIdle /\ ArIdle

\* one turn of the loop of MergePlaneFaces: MergeFaceToList(f, merged)
MergePlaneFacesStep ==
    /\ phase = "merge" /\ mgPc \in {"run1", "run2"} /\ mgRest # <<>>
    /\ mgMerged' = MergeFaceToList(planes, Head(mgRest), mgMerged, mgMaxEdges).list
    /\ mgMerges' = mgMerges \o MergeFaceToList(planes, Head(mgRest), mgMerged, mgMaxEdges).log
    /\ mgRest' = Tail(mgRest)
    /\ UNCHANGED <<notMg, mgMaxEdges, mgPc, mgFirst, mgTry>>

\* the end of MergePlaneFaces: plane.faces = FreeMergeListScraps(merged).
\* mgRest holds plane.faces again
MergePlaneFacesEnd ==
    /\ phase = "merge" /\ mgPc \in {"run1", "run2"} /\ mgRest = <<>>
    /\ mgRest' = FreeMergeListScraps(mgMerged, <<>>)
    /\ mgMerged' = <<>>
    /\ mgFirst' = IF mgPc = "run1" THEN FreeMergeListScraps(mgMerged, <<>>) ELSE mgFirst
    /\ mgPc' = IF mgPc = "run1" THEN "done1" ELSE "done2"
    /\ UNCHANGED <<notMg, mgMaxEdges, mgMerges, mgTry>>

\* MergePlaneFaces is called again on the surface it has merged
MergePlaneFacesAgain ==
    /\ phase = "merge" /\ mgPc = "done1"
    /\ mgPc' = "run2" /\ mgMerges' = <<>>
    /\ UNCHANGED <<notMg, mgMaxEdges, mgRest, mgMerged, mgFirst, mgTry>>

MgNext == MergePlaneFacesStep \/ MergePlaneFacesEnd \/ MergePlaneFacesAgain

SpecMerge == MgInit /\ [][MgNext]_vars

\* TryMerge as a function of any two faces: those of the surface, a face of
\* the wall y = 0 that shares an edge with the first square, and copies of
\* the first square that differ from it in one attribute
TryMergePool ==
    MergePool \cup
    { MergeFace(<<<<1, 0, 1>>, <<0, 0, 1>>, <<0, 0, 0>>, <<1, 0, 0>>>>, 2, 0),
      [MergeFace(FloorSquare(1, 0), 0, 0) EXCEPT !.planeside = 1],
      [MergeFace(FloorSquare(1, 0), 0, 0) EXCEPT !.contents = 1],
      [MergeFace(FloorSquare(1, 0), 0, 0) EXCEPT !.lmshift = 3] }

TmInit ==
    /\ phase = "trymerge"
    /\ mgMaxEdges \in MaxEdgesValues
    /\ mgTry \in [op : {"args"}, count : {0}, f1 : TryMergePool, f2 : TryMergePool]
    /\ mgRest = <<>> /\ mgMerged = <<>> /\ mgPc = "off" /\ mgFirst = <<>> /\ mgMerges = <<>>
    /\ planes = MergeRegistry /\ plLast = NoCall
    /\ TjIdle /\ HvIdle /\ PoIdle /\ ArIdle

TryMergeCall ==
    /\ phase = "trymerge" /\ mgTry.op = "args"
    /\ mgTry' = [op |-> "TryMerge", count |-> 1, f1 |-> mgTry.f1, f2 |-> mgTry.f2,
                 newf |-> TryMerge(planes, mgTry.f1, mgTry.f2, mgMaxEdges)]
    /\ UNCHANGED <<notMg, mgMaxEdges, mgRest, mgMerged, mgPc, mgFirst, mgMerges>>

SpecTryMerge == TmInit /\ [][TryMergeCall]_vars

-----------------------------------------------------------------------------
(* Coplanar merge: properties *)

\* C6: merge is idempotent: MergePlaneFaces run on the face list it
\* produced merges nothing and leaves the same faces in the same order.
C6_MergeIdempotent ==
    /\ mgPc = "run2" => mgMerges = <<>>
    /\ mgPc = "done2" => mgRest = mgFirst /\ mgMerges = <<>>

\* the second run has ended on a list of at least two faces, at least one
\* of which the first run made by merging
C6_Witness ==
    /\ mgPc = "done2" /\ Len(mgFirst) >= 2
    /\ \E i \in 1..Len(mgFirst) : mgFirst[i] \notin MergePool

-----------------------------------------------------------------------------
(* Portals: geometry.  Coordinates are on a lattice of 0.1 map units; every
   plane of the trees below is axial, so a winding is an axial rectangle,
   given by its corner points mins and maxs, flat along its axis. *)

SIDESPACE == 240

PoHuge == 10000

\* BASE_WINDING_EPSILON and SPLIT_WINDING_EPSILON, 0.001, and options.epsilon
\* are all below one lattice step
BASE_WINDING_EPSILON == 0

SPLIT_WINDING_EPSILON == 0

OptionsEpsilon == 0

\* the literal 0.1 of MakeNodePortal
NodePortalEpsilon == 1

\* the default size of WindingIsTiny, 0.2
TinySize == 2

PLANENUM_LEAF == -1

NoWinding == [axis |-> 0, mins |-> <<0, 0, 0>>, maxs |-> <<0, 0, 0>>]

\* a plane with normal sign * e_axis through the points whose axis
\* coordinate is dist
AxialPlane(axis, dist, sign) == [axis |-> axis, dist |-> dist, sign |-> sign]

NegatePlane(plane) == [plane EXCEPT !.sign = -plane.sign]

BaseWindingForPlane(plane) ==
    [axis |-> plane.axis,
     mins |-> [i \in 1..3 |-> IF i = plane.axis THEN plane.dist ELSE -PoHuge],
     maxs |-> [i \in 1..3 |-> IF i = plane.axis THEN plane.dist ELSE PoHuge]]

\* the largest and the smallest signed distance of a point of w to the plane
ClipDistMax(w, plane) ==
    IF plane.sign = 1 THEN w.maxs[plane.axis] - plane.dist
    ELSE plane.dist - w.mins[plane.axis]

ClipDistMin(w, plane) ==
    IF plane.sign = 1 THEN w.mins[plane.axis] - plane.dist
    ELSE plane.dist - w.maxs[plane.axis]

ClipUpper(w, plane) == [w EXCEPT !.mins[plane.axis] = plane.dist]

ClipLower(w, plane) == [w EXCEPT !.maxs[plane.axis] = plane.dist]

\* winding_t::clip: <<front, back>>
WindingClip(w, plane, eps, keep_on) ==
    IF ClipDistMax(w, plane) <= eps /\ ClipDistMin(w, plane) >= -eps
    THEN IF keep_on THEN <<w, NoWinding>> ELSE <<NoWinding, NoWinding>>
    ELSE IF ClipDistMax(w, plane) <= eps THEN <<NoWinding, w>>
    ELSE IF ClipDistMin(w, plane) >= -eps THEN <<w, NoWinding>>
    ELSE IF plane.sign = 1 THEN <<ClipUpper(w, plane), ClipLower(w, plane)>>
    ELSE <<ClipLower(w, plane), ClipUpper(w, plane)>>

\* the lengths of the four edges of a rectangle
WindingEdges(w) ==
    LET free == <<CHOOSE i \in 1..3 : i # w.axis /\ \A j \in 1..3 : j # w.axis => i <= j,
                  CHOOSE i \in 1..3 : i # w.axis /\ \A j \in 1..3 : j # w.axis => i >= j>>
    IN  <<w.maxs[free[1]] - w.mins[free[1]], w.maxs[free[2]] - w.mins[free[2]],
          w.maxs[free[1]] - w.mins[free[1]], w.maxs[free[2]] - w.mins[free[2]]>>

\* fewer than three edges longer than size
WindingIsTiny(w) ==
    Cardinality({i \in 1..4 : WindingEdges(w)[i] > TinySize}) < 3

-----------------------------------------------------------------------------
(* Portals: the trees.  Node 1 is the head node, a node's planenum indexes
   planes (PLANENUM_LEAF on a leaf), 0 is the null pointer, and the node
   after the last is tree_t::outside_node. *)

PoBoxPlanes(lo, hi) ==
    <<AxialPlane(1, lo - SIDESPACE, 1), AxialPlane(2, lo - SIDESPACE, 1),
      AxialPlane(3, lo - SIDESPACE, 1), AxialPlane(1, hi + SIDESPACE, 1),
      AxialPlane(2, hi + SIDESPACE, 1), AxialPlane(3, hi + SIDESPACE, 1)>>

TreeBounds(lo, hi) == [mins |-> <<lo, lo, lo>>, maxs |-> <<hi, hi, hi>>]

\* two rooms and a third leaf, all three touching
TreeCorner ==
    [planes   |-> <<AxialPlane(1, 40, 1), AxialPlane(2, 40, 1)>> \o PoBoxPlanes(0, 80),
     bounds   |-> TreeBounds(0, 80),
     planenum |-> <<1, 2, PLANENUM_LEAF, PLANENUM_LEAF, PLANENUM_LEAF>>,
     children |-> <<<<2, 3>>, <<4, 5>>, <<0, 0>>, <<0, 0>>, <<0, 0>>>>,
     parent   |-> <<0, 1, 1, 2, 2>>]

\* two rooms with a slab between them
TreeSlab ==
    [planes   |-> <<AxialPlane(1, 30, 1), AxialPlane(1, 50, 1)>> \o PoBoxPlanes(0, 80),
     bounds   |-> TreeBounds(0, 80),
     planenum |-> <<1, 2, PLANENUM_LEAF, PLANENUM_LEAF, PLANENUM_LEAF>>,
     children |-> <<<<2, 3>>, <<4, 5>>, <<0, 0>>, <<0, 0>>, <<0, 0>>>>,
     parent   |-> <<0, 1, 1, 2, 2>>]

\* a slab one lattice step thick: its side portals are tiny
TreeSliver ==
    [planes   |-> <<AxialPlane(1, 40, 1), AxialPlane(1, 41, 1)>> \o PoBoxPlanes(0, 80),
     bounds   |-> TreeBounds(0, 80),
     planenum |-> <<1, 2, PLANENUM_LEAF, PLANENUM_LEAF, PLANENUM_LEAF>>,
     children |-> <<<<2, 3>>, <<4, 5>>, <<0, 0>>, <<0, 0>>, <<0, 0>>>>,
     parent   |-> <<0, 1, 1, 2, 2>>]

\* both sides of the head plane are split again, one step apart
TreeOffset ==
    [planes   |-> <<AxialPlane(1, 40, 1), AxialPlane(2, 40, 1), AxialPlane(2, 39, 1)>>
                      \o PoBoxPlanes(0, 80),
     bounds   |-> TreeBounds(0, 80),
     planenum |-> <<1, 2, 3, PLANENUM_LEAF, PLANENUM_LEAF, PLANENUM_LEAF, PLANENUM_LEAF>>,
     children |-> <<<<2, 3>>, <<4, 5>>, <<6, 7>>, <<0, 0>>, <<0, 0>>, <<0, 0>>, <<0, 0>>>>,
     parent   |-> <<0, 1, 1, 2, 2, 3, 3>>]

\* a slab between one room and, on its other side, two rooms with a wall
\* between them
TreeHub ==
    [planes   |-> <<AxialPlane(1, 30, 1), AxialPlane(1, 50, 1), AxialPlane(2, 50, 1),
                    AxialPlane(2, 30, 1)>> \o PoBoxPlanes(0, 80),
     bounds   |-> TreeBounds(0, 80),
     planenum |-> <<1, 2, PLANENUM_LEAF, 3, PLANENUM_LEAF, PLANENUM_LEAF, 4,
                    PLANENUM_LEAF, PLANENUM_LEAF>>,
     children |-> <<<<2, 3>>, <<4, 5>>, <<0, 0>>, <<6, 7>>, <<0, 0>>, <<0, 0>>, <<8, 9>>,
                    <<0, 0>>, <<0, 0>>>>,
     parent   |-> <<0, 1, 1, 2, 2, 4, 4, 7, 7>>]

\* a slab four lattice steps thick cut in the middle: each half of a side
\* portal of the slab is tiny
TreeThin ==
    [planes   |-> <<AxialPlane(2, 38, 1), AxialPlane(2, 42, 1), AxialPlane(2, 40, 1)>>
                      \o PoBoxPlanes(0, 80),
     bounds   |-> TreeBounds(0, 80),
     planenum |-> <<1, 2, PLANENUM_LEAF, PLANENUM_LEAF, 3, PLANENUM_LEAF, PLANENUM_LEAF>>,
     children |-> <<<<2, 3>>, <<4, 5>>, <<0, 0>>, <<0, 0>>, <<6, 7>>, <<0, 0>>, <<0, 0>>>>,
     parent   |-> <<0, 1, 1, 2, 2, 5, 5>>]

\* a slab two lattice steps thick cut across: the portal of the cut is tiny
TreeStrip ==
    [planes   |-> <<AxialPlane(2, 40, 1), AxialPlane(2, 42, 1), AxialPlane(1, 40, 1)>>
                      \o PoBoxPlanes(0, 80),
     bounds   |-> TreeBounds(0, 80),
     planenum |-> <<1, 2, PLANENUM_LEAF, PLANENUM_LEAF, 3, PLANENUM_LEAF, PLANENUM_LEAF>>,
     children |-> <<<<2, 3>>, <<4, 5>>, <<0, 0>>, <<0, 0>>, <<6, 7>>, <<0, 0>>, <<0, 0>>>>,
     parent   |-> <<0, 1, 1, 2, 2, 5, 5>>]

Trees == <<TreeCorner, TreeSlab, TreeSliver, TreeOffset, TreeHub, TreeThin, TreeStrip>>

NumNodes(t) == Len(Trees[t].planenum)

OutsideNode(t) == NumNodes(t) + 1

IsLeaf(t, node) == node = OutsideNode(t) \/ Trees[t].planenum[node] = PLANENUM_LEAF

NodePlane(t, node) == Trees[t].planes[Trees[t].planenum[node]]

\* FindPlane(pl, &side): the id of the positive plane and the side of pl on it
FindPlaneSide(t, pl) ==
    [planenum |-> CHOOSE i \in 1..Len(Trees[t].planes) :
                      /\ Trees[t].planes[i].axis = pl.axis
                      /\ Trees[t].planes[i].dist = pl.dist,
     side |-> IF pl.sign = 1 THEN 0 ELSE 1]

-----------------------------------------------------------------------------
(* Portals: the graph.  g.portals holds every portal_t allocated, a portal's
   id is its index, g.head[n] is n.portals, g.bounds[n] is n.bounds, g.tiny
   is c_tinyportals and g.err the message of the FError that ended the run. *)

NewPortal(planenum, onnode, winding) ==
    [planenum |-> planenum, onnode |-> onnode, winding |-> winding,
     nodes |-> <<0, 0>>, next |-> <<0, 0>>, freed |-> FALSE]

EmptyBounds == [mins |-> <<PoHuge, PoHuge, PoHuge>>, maxs |-> <<-PoHuge, -PoHuge, -PoHuge>>]

EmptyGraph(t) ==
    [portals |-> <<>>, head |-> [n \in 1..OutsideNode(t) |-> 0],
     bounds |-> [n \in 1..NumNodes(t) |-> EmptyBounds], tiny |-> 0, err |-> ""]

Fail(g, msg) == [g EXCEPT !.err = msg]

\* p->next[1] = back->portals is read after front->portals = p
AddPortalToNodes(g, p, front, back) ==
    IF g.err # "" THEN g
    ELSE IF g.portals[p].nodes[1] # 0 \/ g.portals[p].nodes[2] # 0
    THEN Fail(g, "portal already included")
    ELSE [g EXCEPT !.portals[p].nodes = <<front, back>>,
                   !.portals[p].next = <<g.head[front], IF back = front THEN p ELSE g.head[back]>>,
                   !.head = [n \in DOMAIN g.head |-> IF n \in {front, back} THEN p ELSE g.head[n]]]

\* a portal_t **: the portals field of node l, or next[s] of portal t
HeadRef(l) == [portal |-> 0, slot |-> l]

NextRef(t, s) == [portal |-> t, slot |-> s]

Deref(g, pp) ==
    IF pp.portal = 0 THEN g.head[pp.slot] ELSE g.portals[pp.portal].next[pp.slot + 1]

StoreRef(g, pp, v) ==
    IF pp.portal = 0 THEN [g EXCEPT !.head[pp.slot] = v]
    ELSE [g EXCEPT !.portals[pp.portal].next[pp.slot + 1] = v]

\* the while (1) of RemovePortalFromNode; a walk longer than the number of
\* portals never ends
RECURSIVE FindPortalRef(_, _, _, _, _)
FindPortalRef(g, portal, l, pp, fuel) ==
    IF Deref(g, pp) = 0 THEN [err |-> "Portal not in leaf", pp |-> pp]
    ELSE IF Deref(g, pp) = portal THEN [err |-> "", pp |-> pp]
    ELSE IF fuel = 0 THEN [err |-> "endless loop", pp |-> pp]
    ELSE IF g.portals[Deref(g, pp)].nodes[1] = l
    THEN FindPortalRef(g, portal, l, NextRef(Deref(g, pp), 0), fuel - 1)
    ELSE IF g.portals[Deref(g, pp)].nodes[2] = l
    THEN FindPortalRef(g, portal, l, NextRef(Deref(g, pp), 1), fuel - 1)
    ELSE [err |-> "Portal not bounding leaf", pp |-> pp]

UnlinkTo_Null(g, portal, s) == 0

\* *pp = portal->next[s]
UnlinkTo(g, portal, s) == g.portals[portal].next[s + 1]

RemovePortalAt(g, portal, l, r) ==
    IF r.err # "" THEN Fail(g, r.err)
    ELSE IF g.portals[portal].nodes[1] = l
    THEN [StoreRef(g, r.pp, UnlinkTo(g, portal, 0)) EXCEPT !.portals[portal].nodes[1] = 0]
    ELSE IF g.portals[portal].nodes[2] = l
    THEN [StoreRef(g, r.pp, UnlinkTo(g, portal, 1)) EXCEPT !.portals[portal].nodes[2] = 0]
    ELSE g

RemovePortalFromNode(g, portal, l) ==
    IF g.err # "" THEN g
    ELSE RemovePortalAt(g, portal, l, FindPortalRef(g, portal, l, HeadRef(l), Len(g.portals)))

\* the plane bplanes[n] of MakeHeadnodePortals, n = j * 3 + i
HeadnodePlane(t, n) ==
    AxialPlane((n % 3) + 1,
               IF n \div 3 = 1 THEN Trees[t].bounds.maxs[(n % 3) + 1] + SIDESPACE
               ELSE Trees[t].bounds.mins[(n % 3) + 1] - SIDESPACE,
               IF n \div 3 = 1 THEN -1 ELSE 1)

AppendPortal(g, portal) == [g EXCEPT !.portals = Append(g.portals, portal)]

AddHeadnodePortal(g, t, n, found) ==
    IF found.side = 1
    THEN AddPortalToNodes(AppendPortal(g, NewPortal(found.planenum, 0,
                              BaseWindingForPlane(HeadnodePlane(t, n)))),
                          Len(g.portals) + 1, OutsideNode(t), 1)
    ELSE AddPortalToNodes(AppendPortal(g, NewPortal(found.planenum, 0,
                              BaseWindingForPlane(HeadnodePlane(t, n)))),
                          Len(g.portals) + 1, 1, OutsideNode(t))

\* for (i) for (j): the k-th portal made is portals[j * 3 + i], i = k / 2, j = k % 2
RECURSIVE AddHeadnodePortals(_, _, _)
AddHeadnodePortals(g, t, k) ==
    IF k = 6 THEN g
    ELSE AddHeadnodePortals(
             AddHeadnodePortal(g, t, (k % 2) * 3 + (k \div 2),
                               FindPlaneSide(t, HeadnodePlane(t, (k % 2) * 3 + (k \div 2)))),
             t, k + 1)

RECURSIVE ClipByBox(_, _, _, _)
ClipByBox(w, t, i, j) ==
    IF j = 6 THEN w
    ELSE IF j = i THEN ClipByBox(w, t, i, j + 1)
    ELSE ClipByBox(WindingClip(w, HeadnodePlane(t, j), OptionsEpsilon, TRUE)[1], t, i, j + 1)

\* the id of portals[i], when the first of the six was allocated after base
HeadnodePortalId(base, i) == base + (i % 3) * 2 + (i \div 3) + 1

RECURSIVE ClipHeadnodePortals(_, _, _, _)
ClipHeadnodePortals(g, t, base, i) ==
    IF i = 6 THEN g
    ELSE ClipHeadnodePortals(
             [g EXCEPT !.portals[HeadnodePortalId(base, i)].winding =
                           ClipByBox(g.portals[HeadnodePortalId(base, i)].winding, t, i, 0)],
             t, base, i + 1)

MakeHeadnodePortals(g, t) ==
    IF g.err # "" THEN g
    ELSE ClipHeadnodePortals(
             AddHeadnodePortals([g EXCEPT !.head[OutsideNode(t)] = 0], t, 0),
             t, Len(g.portals), 0)

RECURSIVE ClipByParents(_, _, _)
ClipByParents(t, w, node) ==
    IF Trees[t].parent[node] = 0 \/ w = NoWinding THEN w
    ELSE ClipByParents(t,
             WindingClip(w, NodePlane(t, Trees[t].parent[node]), BASE_WINDING_EPSILON, FALSE)
                 [IF Trees[t].children[Trees[t].parent[node]][1] = node THEN 1 ELSE 2],
             Trees[t].parent[node])

BaseWindingForNode(t, node) == ClipByParents(t, BaseWindingForPlane(NodePlane(t, node)), node)

\* the plane of portal p as node n on its side s sees it
PortalPlane(g, t, p, s) ==
    IF s = 0 THEN Trees[t].planes[g.portals[p].planenum]
    ELSE NegatePlane(Trees[t].planes[g.portals[p].planenum])

\* the loop of MakeNodePortal over node->portals
RECURSIVE ClipByPortals(_, _, _, _, _, _)
ClipByPortals(g, t, node, w, p, fuel) ==
    IF p = 0 \/ w = NoWinding THEN [err |-> "", w |-> w]
    ELSE IF fuel = 0 THEN [err |-> "endless loop", w |-> w]
    ELSE IF g.portals[p].nodes[1] = node
    THEN ClipByPortals(g, t, node,
             WindingClip(w, PortalPlane(g, t, p, 0), NodePortalEpsilon, FALSE)[1],
             g.portals[p].next[1], fuel - 1)
    ELSE IF g.portals[p].nodes[2] = node
    THEN ClipByPortals(g, t, node,
             WindingClip(w, PortalPlane(g, t, p, 1), NodePortalEpsilon, FALSE)[1],
             g.portals[p].next[2], fuel - 1)
    ELSE [err |-> "CutNodePortals_r: mislinked portal", w |-> w]

\* (mutant) the new portal is put on the children the other way round
MakeNodePortalFrom_Swapped(g, t, node, r) ==
    IF r.err # "" THEN Fail(g, r.err)
    ELSE IF r.w = NoWinding THEN g
    ELSE IF WindingIsTiny(r.w) THEN [g EXCEPT !.tiny = g.tiny + 1]
    ELSE AddPortalToNodes(AppendPortal(g, NewPortal(Trees[t].planenum[node], node, r.w)),
                          Len(g.portals) + 1,
                          Trees[t].children[node][2], Trees[t].children[node][1])

MakeNodePortalFrom(g, t, node, r) ==
    IF r.err # "" THEN Fail(g, r.err)
    ELSE IF r.w = NoWinding THEN g
    ELSE IF WindingIsTiny(r.w) THEN [g EXCEPT !.tiny = g.tiny + 1]
    ELSE AddPortalToNodes(AppendPortal(g, NewPortal(Trees[t].planenum[node], node, r.w)),
                          Len(g.portals) + 1,
                          Trees[t].children[node][1], Trees[t].children[node][2])

MakeNodePortal(g, t, node) ==
    IF g.err # "" THEN g
    ELSE MakeNodePortalFrom(g, t, node,
             ClipByPortals(g, t, node, BaseWindingForNode(t, node), g.head[node],
                           Len(g.portals)))


TinyDropped(w) == IF w # NoWinding /\ WindingIsTiny(w) THEN NoWinding ELSE w

TinyCount(w) == IF w # NoWinding /\ WindingIsTiny(w) THEN 1 ELSE 0

SplitPortal_SameWinding(g, p, fw, bw) == AppendPortal(g, g.portals[p])

\* new portal_t{*p}, with the back winding, and p keeps the front one
SplitPortal(g, p, fw, bw) ==
    AppendPortal([g EXCEPT !.portals[p].winding = fw], [g.portals[p] EXCEPT !.winding = bw])

\* the body of the loop of SplitNodePortals after the clip
SplitAttach(g, t, node, p, side, other_node, fw, bw) ==
    IF g.err # "" \/ (fw = NoWinding /\ bw = NoWinding) THEN g
    ELSE IF fw = NoWinding
    THEN IF side = 0 THEN AddPortalToNodes(g, p, Trees[t].children[node][2], other_node)
         ELSE AddPortalToNodes(g, p, other_node, Trees[t].children[node][2])
    ELSE IF bw = NoWinding
    THEN IF side = 0 THEN AddPortalToNodes(g, p, Trees[t].children[node][1], other_node)
         ELSE AddPortalToNodes(g, p, other_node, Trees[t].children[node][1])
    ELSE IF side = 0
    THEN AddPortalToNodes(
             AddPortalToNodes(SplitPortal(g, p, fw, bw), p,
                              Trees[t].children[node][1], other_node),
             Len(g.portals) + 1, Trees[t].children[node][2], other_node)
    ELSE AddPortalToNodes(
             AddPortalToNodes(SplitPortal(g, p, fw, bw), p,
                              other_node, Trees[t].children[node][1]),
             Len(g.portals) + 1, other_node, Trees[t].children[node][2])

CountTiny(g, clipped) ==
    IF g.err # "" THEN g
    ELSE [g EXCEPT !.tiny = g.tiny + TinyCount(clipped[1]) + TinyCount(clipped[2])]

SplitClipped(g, t, node, p, side, other_node, clipped) ==
    SplitAttach(CountTiny(g, clipped), t, node, p, side, other_node,
                TinyDropped(clipped[1]), TinyDropped(clipped[2]))

SplitOne(g, t, node, p, side) ==
    SplitClipped(
        RemovePortalFromNode(RemovePortalFromNode(g, p, g.portals[p].nodes[1]),
                             p, g.portals[p].nodes[2]),
        t, node, p, side, g.portals[p].nodes[2 - side],
        WindingClip(g.portals[p].winding, NodePlane(t, node), SPLIT_WINDING_EPSILON, TRUE))

RECURSIVE SplitLoop(_, _, _, _, _)
SplitLoop(g, t, node, p, fuel) ==
    IF g.err # "" THEN g
    ELSE IF p = 0 THEN [g EXCEPT !.head[node] = 0]
    ELSE IF fuel = 0 THEN Fail(g, "endless loop")
    ELSE IF g.portals[p].nodes[1] = node
    THEN SplitLoop(SplitOne(g, t, node, p, 0), t, node, g.portals[p].next[1], fuel - 1)
    ELSE IF g.portals[p].nodes[2] = node
    THEN SplitLoop(SplitOne(g, t, node, p, 1), t, node, g.portals[p].next[2], fuel - 1)
    ELSE Fail(g, "CutNodePortals_r: mislinked portal")

\* (mutant) only the portals of the head node are handed down
SplitNodePortals_HeadOnly(g, t, node) ==
    IF node = 1 THEN SplitLoop(g, t, node, g.head[node], Len(g.portals)) ELSE g

SplitNodePortals(g, t, node) == SplitLoop(g, t, node, g.head[node], Len(g.portals))

AddWinding(b, w) ==
    [mins |-> [i \in 1..3 |-> IF w.mins[i] < b.mins[i] THEN w.mins[i] ELSE b.mins[i]],
     maxs |-> [i \in 1..3 |-> IF w.maxs[i] > b.maxs[i] THEN w.maxs[i] ELSE b.maxs[i]]]

RECURSIVE BoundsOfPortals(_, _, _, _, _)
BoundsOfPortals(g, node, p, b, fuel) ==
    IF p = 0 \/ fuel = 0 THEN b
    ELSE BoundsOfPortals(g, node,
             g.portals[p].next[IF g.portals[p].nodes[2] = node THEN 2 ELSE 1],
             AddWinding(b, g.portals[p].winding), fuel - 1)

CalcNodeBounds(g, node) == BoundsOfPortals(g, node, g.head[node], EmptyBounds, Len(g.portals))

\* the node without a volume takes the mins of its parent for both corners
SetNodeBounds(g, t, node, b) ==
    IF b.mins[1] < b.maxs[1] THEN [g EXCEPT !.bounds[node] = b]
    ELSE IF Trees[t].parent[node] = 0 THEN Fail(g, "node->parent is null")
    ELSE [g EXCEPT !.bounds[node] = [mins |-> g.bounds[Trees[t].parent[node]].mins,
                                     maxs |-> g.bounds[Trees[t].parent[node]].mins]]

RECURSIVE MakeTreePortals_r(_, _, _)
MakeTreePortals_r(g, t, node) ==
    IF g.err # "" THEN g
    ELSE IF IsLeaf(t, node) THEN SetNodeBounds(g, t, node, CalcNodeBounds(g, node))
    ELSE MakeTreePortals_r(
             MakeTreePortals_r(
                 SplitNodePortals(
                     MakeNodePortal(SetNodeBounds(g, t, node, CalcNodeBounds(g, node)), t, node),
                     t, node),
                 t, Trees[t].children[node][1]),
             t, Trees[t].children[node][2])

RECURSIVE Subtree(_, _)
Subtree(t, node) ==
    IF IsLeaf(t, node) THEN {node}
    ELSE {node} \cup Subtree(t, Trees[t].children[node][1])
                \cup Subtree(t, Trees[t].children[node][2])

AssertNoPortals(g, t, node) ==
    IF g.err = "" /\ \E n \in Subtree(t, node) : g.head[n] # 0
    THEN Fail(g, "Q_assert(!node->portals)")
    ELSE g

FreePortal_Leak(g, p) == g

\* delete p; a second delete of the same portal is recorded as an error
FreePortal(g, p) ==
    IF g.err # "" THEN g
    ELSE IF g.portals[p].freed THEN Fail(g, "portal deleted twice")
    ELSE [g EXCEPT !.portals[p].freed = TRUE]

RECURSIVE FreeNodePortals(_, _, _, _)
FreeNodePortals(g, node, p, fuel) ==
    IF g.err # "" THEN g
    ELSE IF p = 0 THEN [g EXCEPT !.head[node] = 0]
    ELSE IF fuel = 0 THEN Fail(g, "endless loop")
    ELSE FreeNodePortals(
             FreePortal(RemovePortalFromNode(RemovePortalFromNode(g, p, g.portals[p].nodes[1]),
                                             p, g.portals[p].nodes[2]), p),
             node,
             g.portals[p].next[IF g.portals[p].nodes[1] = node THEN 1 ELSE 2],
             fuel - 1)

FreeNodeList(g, node) == FreeNodePortals(g, node, g.head[node], Len(g.portals))

RECURSIVE FreeTreePortals_r(_, _, _)
FreeTreePortals_r(g, t, node) ==
    IF IsLeaf(t, node) THEN FreeNodeList(g, node)
    ELSE FreeNodeList(
             FreeTreePortals_r(FreeTreePortals_r(g, t, Trees[t].children[node][1]),
                               t, Trees[t].children[node][2]),
             node)

MakeTreePortals(g, t) ==
    MakeTreePortals_r(
        MakeHeadnodePortals(
            [AssertNoPortals(FreeTreePortals_r(g, t, 1), t, 1) EXCEPT !.tiny = 0], t),
        t, 1)

-----------------------------------------------------------------------------
(* Portals: the calls.  Any of the operations on the portal graph may be
   called next; as everywhere in the source, a portal is taken off nodes[0]
   and then off nodes[1], only a portal on no node is put on two, and
   neither of the two is the other or a node below it. *)

MaxPortalCalls == 4

PoGraph ==
    [portals |-> poPortals, head |-> poHead, bounds |-> poBounds, tiny |-> poStats,
     err |-> poErr]

PoSet(g) ==
    /\ poPortals' = g.portals /\ poHead' = g.head /\ poBounds' = g.bounds
    /\ poStats' = g.tiny /\ poErr' = g.err

\* the portals taken off nodes[0] and still on nodes[1]
HalfRemoved(g) ==
    {p \in 1..Len(g.portals) : g.portals[p].nodes[1] = 0 /\ g.portals[p].nodes[2] # 0}

\* the portals on no node that were not deleted
Loose(g) ==
    {p \in 1..Len(g.portals) :
        g.portals[p].nodes = <<0, 0>> /\ ~g.portals[p].freed}

PoCanCall == phase = "portals" /\ poErr = "" /\ poCalls < MaxPortalCalls

PoCalled == poCalls' = poCalls + 1 /\ UNCHANGED <<notPo, poTree, arVars>>

\* the trees on which the calls are made in any order
PortalTrees ==
    {t \in 1..Len(Trees) : Trees[t] \in {TreeCorner, TreeSlab, TreeSliver, TreeOffset}}

PoInit ==
    /\ phase = "portals"
    /\ poTree \in PortalTrees
    /\ poPortals = <<>>
    /\ poHead = EmptyGraph(poTree).head
    /\ poBounds = EmptyGraph(poTree).bounds
    /\ poStats = 0 /\ poCalls = 0 /\ poErr = ""
    /\ ArIdle /\ TjIdle /\ PlIdle /\ HvIdle /\ MgIdle

MakeTreePortalsCall ==
    /\ PoCanCall /\ HalfRemoved(PoGraph) = {}
    /\ PoSet(MakeTreePortals(PoGraph, poTree))
    /\ PoCalled

MakeNodePortalCall ==
    /\ PoCanCall /\ HalfRemoved(PoGraph) = {}
    /\ \E node \in 1..NumNodes(poTree) :
        /\ ~IsLeaf(poTree, node)
        /\ PoSet(MakeNodePortal(PoGraph, poTree, node))
    /\ PoCalled

SplitNodePortalsCall ==
    /\ PoCanCall /\ HalfRemoved(PoGraph) = {}
    /\ \E node \in 1..NumNodes(poTree) :
        /\ ~IsLeaf(poTree, node)
        /\ PoSet(SplitNodePortals(PoGraph, poTree, node))
    /\ PoCalled

FreeTreePortalsCall ==
    /\ PoCanCall /\ HalfRemoved(PoGraph) = {}
    /\ \E node \in 1..NumNodes(poTree) :
        PoSet(FreeTreePortals_r(PoGraph, poTree, node))
    /\ PoCalled

RemovePortalFromNodeCall ==
    /\ PoCanCall
    /\ \E p \in 1..Len(poPortals) :
        /\ poPortals[p].nodes[2] # 0
        /\ HalfRemoved(PoGraph) \subseteq {p}
        /\ PoSet(RemovePortalFromNode(PoGraph, p,
                     poPortals[p].nodes[IF poPortals[p].nodes[1] # 0 THEN 1 ELSE 2]))
    /\ PoCalled

AddPortalToNodesCall ==
    /\ PoCanCall /\ HalfRemoved(PoGraph) = {}
    /\ \E p \in Loose(PoGraph) :
        \E front, back \in 1..OutsideNode(poTree) :
            /\ front \notin Subtree(poTree, back) /\ back \notin Subtree(poTree, front)
            /\ PoSet(AddPortalToNodes(PoGraph, p, front, back))
    /\ PoCalled

PoNext ==
    \/ MakeTreePortalsCall
    \/ MakeNodePortalCall
    \/ SplitNodePortalsCall
    \/ FreeTreePortalsCall
    \/ RemovePortalFromNodeCall
    \/ AddPortalToNodesCall

SpecPortals == PoInit /\ [][PoNext]_vars

-----------------------------------------------------------------------------
(* Portals: properties *)

\* the portals met from p on by following next[s], s the slot of node n; 0
\* ends a walk that does not end, -1 one that meets a portal not on n
RECURSIVE WalkList(_, _, _, _)
WalkList(g, n, p, fuel) ==
    IF p = 0 THEN <<>>
    ELSE IF fuel = 0 THEN <<0>>
    ELSE IF g.portals[p].nodes[1] = n
    THEN <<p>> \o WalkList(g, n, g.portals[p].next[1], fuel - 1)
    ELSE IF g.portals[p].nodes[2] = n
    THEN <<p>> \o WalkList(g, n, g.portals[p].next[2], fuel - 1)
    ELSE <<-1>>

NodeList(g, n) == WalkList(g, n, g.head[n], Len(g.portals))

AttachedTo(g, n) ==
    {p \in 1..Len(g.portals) : g.portals[p].nodes[1] = n \/ g.portals[p].nodes[2] = n}

Occurrences(list, p) == Cardinality({i \in 1..Len(list) : list[i] = p})

\* C2: every portal with both nodes set is exactly once in the portal list
\* of nodes[0] and exactly once in that of nodes[1], and the walk of a node's
\* list along next[s] meets exactly the portals on that node, none of them
\* deleted.
C2_PortalListsConsistent ==
    poErr = "" =>
        /\ \A p \in 1..Len(poPortals) :
              (poPortals[p].nodes[1] # 0 /\ poPortals[p].nodes[2] # 0) =>
                  /\ Occurrences(NodeList(PoGraph, poPortals[p].nodes[1]), p) = 1
                  /\ Occurrences(NodeList(PoGraph, poPortals[p].nodes[2]), p) = 1
        /\ \A n \in 1..Len(poHead) :
              /\ Range(NodeList(PoGraph, n)) = AttachedTo(PoGraph, n)
              /\ \A p \in AttachedTo(PoGraph, n) :
                    /\ ~poPortals[p].freed
                    /\ Occurrences(NodeList(PoGraph, n), p) = 1

\* a tree was built, one of its portals was split in two, and a portal was
\* then taken off its nodes from the middle of a list of at least three
C2_Witness ==
    /\ poErr = "" /\ poCalls >= 3 /\ poStats = 0
    /\ Len(poPortals) > 7
    /\ \E p \in Loose(PoGraph) : p <= 6
    /\ \E n \in 1..Len(poHead) : Len(NodeList(PoGraph, n)) >= 3

\* no call ends in an FError
PoNoError == poErr = ""

-----------------------------------------------------------------------------
(* Area flood.  A leaf's contents are the set of its content bits, its
   func_areaportal the entity AreanodeEntityForLeaf finds among its original
   brushes (0 for none).  The trees have no detail_separator node, so every
   cluster is a leaf. *)

MaxAreaEntities == 2

MaxOccupied == 2

Q2_CONTENTS_AREAPORTAL == "AREAPORTAL"

LeafKind(contents, entity) == [contents |-> contents, func_areaportal |-> entity]

SolidLeaf == LeafKind({"SOLID"}, 0)

LeafKinds ==
    {SolidLeaf, LeafKind({}, 0), LeafKind({Q2_CONTENTS_AREAPORTAL}, 0),
     LeafKind({Q2_CONTENTS_AREAPORTAL, "WATER"}, 1)}
        \cup {LeafKind({Q2_CONTENTS_AREAPORTAL}, e) : e \in 1..MaxAreaEntities}

TreeLeaves(t) == {n \in 1..NumNodes(t) : IsLeaf(t, n)}

\* the contents of every node of tree t: any kind on a leaf of the tree,
\* none on a node with children, solid on outside_node
LeafAssignments(t) ==
    {l \in [1..OutsideNode(t) -> LeafKinds] :
        /\ l[OutsideNode(t)] = SolidLeaf
        /\ \A n \in 1..NumNodes(t) : ~IsLeaf(t, n) => l[n] = LeafKind({}, 0)}

is_any_solid(contents) == "SOLID" \in contents

ClusterContents(leafs, node) == leafs[node].contents

AreanodeEntityForLeaf(leafs, node) == leafs[node].func_areaportal

\* what FindOccupiedClusters returns: up to MaxOccupied leaves that are not
\* solid, each once
OccupiedLists(t, leafs) ==
    {occ \in UNION {[1..k -> TreeLeaves(t)] : k \in 0..MaxOccupied} :
        /\ \A i \in 1..Len(occ) : ~is_any_solid(leafs[occ[i]].contents)
        /\ \A i, j \in 1..Len(occ) : i # j => occ[i] # occ[j]}

\* a.area[n] is n.area, a.portalareas[e] the portalareas of entity e
NoAreas(t) ==
    [area |-> [n \in 1..OutsideNode(t) |-> 0],
     portalareas |-> [e \in 1..MaxAreaEntities |-> <<0, 0>>],
     c_areas |-> 0, err |-> ""]

Portal_EntityFlood_Always(leafs, n0, n1) == TRUE

\* Portal_EntityFlood, its two nodes being leaves
Portal_EntityFlood(leafs, n0, n1) ==
    ~(is_any_solid(leafs[n0].contents) \/ is_any_solid(leafs[n1].contents))

TouchAreaPortal_Overwrite(a, entity) ==
    IF entity = 0 THEN a
    ELSE IF a.portalareas[entity][1] = 0
    THEN [a EXCEPT !.portalareas[entity][1] = a.c_areas]
    ELSE [a EXCEPT !.portalareas[entity][2] = a.c_areas]

\* FloodAreas_r on a cluster with the area-portal bit
TouchAreaPortal(a, entity) ==
    IF entity = 0 THEN a
    ELSE IF a.portalareas[entity][1] = a.c_areas \/ a.portalareas[entity][2] = a.c_areas THEN a
    ELSE IF a.portalareas[entity][2] # 0 THEN a
    ELSE IF a.portalareas[entity][1] # 0
    THEN [a EXCEPT !.portalareas[entity][2] = a.c_areas]
    ELSE [a EXCEPT !.portalareas[entity][1] = a.c_areas]

RECURSIVE FloodAreas_r(_, _, _, _, _)
RECURSIVE FloodAreaPortals(_, _, _, _, _, _)
FloodAreas_r(a, g, t, leafs, node) ==
    IF a.err # "" THEN a
    ELSE IF Q2_CONTENTS_AREAPORTAL \in ClusterContents(leafs, node)
    THEN TouchAreaPortal(a, AreanodeEntityForLeaf(leafs, node))
    ELSE IF a.area[node] # 0 THEN a
    ELSE FloodAreaPortals([a EXCEPT !.area[node] = a.c_areas], g, t, leafs, node, g.head[node])

\* for (p = node->portals; p; p = p->next[s]), s = (p->nodes[1] == node)
FloodAreaPortals(a, g, t, leafs, node, p) ==
    IF a.err # "" \/ p = 0 THEN a
    ELSE IF ~IsLeaf(t, g.portals[p].nodes[1]) \/ ~IsLeaf(t, g.portals[p].nodes[2])
    THEN [a EXCEPT !.err = "Portal_EntityFlood: not a leaf"]
    ELSE IF g.portals[p].nodes[2] = node
    THEN FloodAreaPortals(
             IF Portal_EntityFlood(leafs, g.portals[p].nodes[1], g.portals[p].nodes[2])
             THEN FloodAreas_r(a, g, t, leafs, g.portals[p].nodes[1]) ELSE a,
             g, t, leafs, node, g.portals[p].next[2])
    ELSE FloodAreaPortals(
             IF Portal_EntityFlood(leafs, g.portals[p].nodes[1], g.portals[p].nodes[2])
             THEN FloodAreas_r(a, g, t, leafs, g.portals[p].nodes[2]) ELSE a,
             g, t, leafs, node, g.portals[p].next[1])

NextAreaId_Reused(a) == IF a.c_areas = 0 THEN 1 ELSE a.c_areas

\* map.c_areas++
NextAreaId(a) == a.c_areas + 1

RECURSIVE FindAreas(_, _, _, _, _)
FindAreas(a, g, t, leafs, occupied) ==
    IF occupied = <<>> \/ a.err # "" THEN a
    ELSE IF a.area[Head(occupied)] # 0
            \/ Q2_CONTENTS_AREAPORTAL \in ClusterContents(leafs, Head(occupied))
    THEN FindAreas(a, g, t, leafs, Tail(occupied))
    ELSE FindAreas(FloodAreas_r([a EXCEPT !.c_areas = NextAreaId(a)], g, t, leafs,
                                Head(occupied)),
                   g, t, leafs, Tail(occupied))

RECURSIVE SetAreaPortalAreas_r(_, _, _, _)
SetAreaPortalAreas_r(a, t, leafs, node) ==
    IF ~IsLeaf(t, node)
    THEN SetAreaPortalAreas_r(SetAreaPortalAreas_r(a, t, leafs, Trees[t].children[node][1]),
                              t, leafs, Trees[t].children[node][2])
    ELSE IF leafs[node].contents # {Q2_CONTENTS_AREAPORTAL} THEN a
    ELSE IF a.area[node] # 0 THEN a
    ELSE IF AreanodeEntityForLeaf(leafs, node) = 0 THEN a
    ELSE [a EXCEPT !.area[node] = a.portalareas[AreanodeEntityForLeaf(leafs, node)][1]]

FloodAreas(a, g, t, leafs, occupied) ==
    IF a.err # "" THEN a
    ELSE SetAreaPortalAreas_r(FindAreas(a, g, t, leafs, occupied), t, leafs, 1)

ArAreas == [area |-> arArea, portalareas |-> arPortalAreas, c_areas |-> c_areas, err |-> poErr]

\* the trees of three leaves
AreaTrees == {t \in 1..Len(Trees) : Cardinality(TreeLeaves(t)) = 3}

ArInit ==
    /\ phase = "areas"
    /\ poTree \in AreaTrees
    /\ poPortals = <<>>
    /\ poHead = EmptyGraph(poTree).head
    /\ poBounds = EmptyGraph(poTree).bounds
    /\ poStats = 0 /\ poCalls = 0 /\ poErr = ""
    /\ arLeaf \in LeafAssignments(poTree)
    /\ arOccupied \in OccupiedLists(poTree, arLeaf)
    /\ arArea = NoAreas(poTree).area
    /\ arPortalAreas = NoAreas(poTree).portalareas
    /\ c_areas = 0
    /\ TjIdle /\ PlIdle /\ HvIdle /\ MgIdle

\* the portals of the tree are made before its areas are flooded
PortalizeCall ==
    /\ phase = "areas" /\ poCalls = 0
    /\ PoSet(MakeTreePortals(PoGraph, poTree))
    /\ poCalls' = 1
    /\ UNCHANGED <<notPo, poTree, arVars>>

ArSet(a) ==
    /\ arArea' = a.area /\ arPortalAreas' = a.portalareas /\ c_areas' = a.c_areas
    /\ poErr' = a.err

FloodAreasCall ==
    /\ phase = "areas" /\ poCalls = 1 /\ poErr = ""
    /\ ArSet(FloodAreas(ArAreas, PoGraph, poTree, arLeaf, arOccupied))
    /\ poCalls' = 2
    /\ UNCHANGED <<notPo, poTree, poPortals, poHead, poBounds, poStats, arLeaf, arOccupied>>

ArNext == PortalizeCall \/ FloodAreasCall

SpecAreas == ArInit /\ [][ArNext]_vars

-----------------------------------------------------------------------------
(* Area flood: properties *)

ArFlooded == phase = "areas" /\ poCalls = 2 /\ poErr = ""

HasAreaPortalBit(n) == Q2_CONTENTS_AREAPORTAL \in arLeaf[n].contents

\* two leaves that are not solid and have a portal between them
Adjoining(m, n) ==
    /\ ~is_any_solid(arLeaf[m].contents) /\ ~is_any_solid(arLeaf[n].contents)
    /\ \E p \in 1..Len(poPortals) :
          ~poPortals[p].freed /\ poPortals[p].nodes \in {<<m, n>>, <<n, m>>}

\* the leaves without the area-portal bit that a chain of portals between
\* such leaves joins to one of S
RECURSIVE FloodedFrom(_)
FloodedFrom(S) ==
    IF \E m \in S : \E n \in TreeLeaves(poTree) \ S : ~HasAreaPortalBit(n) /\ Adjoining(m, n)
    THEN FloodedFrom(S \cup {n \in TreeLeaves(poTree) :
                                ~HasAreaPortalBit(n) /\ \E m \in S : Adjoining(m, n)})
    ELSE S

Flooded == FloodedFrom({n \in Range(arOccupied) : ~HasAreaPortalBit(n)})

-----------------------------------------------------------------------------
(* Area flood around a hub: the slab of TreeHub carries the area-portal bit,
   and the occupied clusters are rooms, in any order. *)

HubTree == CHOOSE t \in 1..Len(Trees) : Trees[t] = TreeHub

HubSlab == Trees[HubTree].children[2][2]

HubRooms == {3, 6, 9}

HubWall == Trees[HubTree].children[7][1]

\* the slab has a kind with the area-portal bit, the wall any kind, each
\* room is solid or empty
HubAssignment(slab, wall, rooms) ==
    [n \in 1..OutsideNode(HubTree) |->
        IF n = HubSlab THEN slab
        ELSE IF n = HubWall THEN wall
        ELSE IF n \in HubRooms THEN rooms[n]
        ELSE IF n = OutsideNode(HubTree) THEN SolidLeaf
        ELSE LeafKind({}, 0)]

HubAssignments ==
    {HubAssignment(slab, wall, rooms) :
        slab \in {k \in LeafKinds : Q2_CONTENTS_AREAPORTAL \in k.contents},
        wall \in LeafKinds,
        rooms \in [HubRooms -> {SolidLeaf, LeafKind({}, 0)}]}

\* what FindOccupiedClusters returns: rooms that are not solid, each once
HubOccupiedLists(leafs) ==
    {occ \in UNION {[1..k -> HubRooms] : k \in 0..Cardinality(HubRooms)} :
        /\ \A i \in 1..Len(occ) : ~is_any_solid(leafs[occ[i]].contents)
        /\ \A i, j \in 1..Len(occ) : i # j => occ[i] # occ[j]}

HubInit ==
    /\ phase = "areas"
    /\ poTree = HubTree
    /\ poPortals = <<>>
    /\ poHead = EmptyGraph(poTree).head
    /\ poBounds = EmptyGraph(poTree).bounds
    /\ poStats = 0 /\ poCalls = 0 /\ poErr = ""
    /\ arLeaf \in HubAssignments
    /\ arOccupied \in HubOccupiedLists(arLeaf)
    /\ arArea = NoAreas(poTree).area
    /\ arPortalAreas = NoAreas(poTree).portalareas
    /\ c_areas = 0
    /\ TjIdle /\ PlIdle /\ HvIdle /\ MgIdle

SpecHub == HubInit /\ [][ArNext]_vars

-----------------------------------------------------------------------------
(* Area flood: further properties *)

TouchingAreas(e) ==
    {arArea[m] : m \in {m \in TreeLeaves(poTree) :
        /\ ~HasAreaPortalBit(m) /\ arArea[m] # 0
        /\ \E n \in TreeLeaves(poTree) :
              HasAreaPortalBit(n) /\ arLeaf[n].func_areaportal = e /\ Adjoining(m, n)}}

LeastOr0(S) == IF S = {} THEN 0 ELSE Min(S)

\* C12: the floods run in the order of their area ids, so portalareas[0] of
\* an area-portal entity is the least area id next to one of its leaves and
\* portalareas[1] the second least, 0 where there is none; a third area next
\* to the entity changes neither; so portalareas[1] # 0 implies
\* portalareas[0] # 0 and portalareas[0] # portalareas[1].
C12_PortalAreasFirstTwo ==
    ArFlooded =>
        \A e \in 1..MaxAreaEntities :
            /\ arPortalAreas[e][1] = LeastOr0(TouchingAreas(e))
            /\ arPortalAreas[e][2] =
                   LeastOr0(TouchingAreas(e) \ {LeastOr0(TouchingAreas(e))})
            /\ arPortalAreas[e][2] # 0 =>
                   /\ arPortalAreas[e][1] # 0
                   /\ arPortalAreas[e][1] # arPortalAreas[e][2]

\* three areas were flooded, all three next to the leaves of one entity
C12_Witness ==
    /\ ArFlooded /\ c_areas = 3
    /\ \E e \in 1..MaxAreaEntities :
          TouchingAreas(e) = {1, 2, 3} /\ arPortalAreas[e] = <<1, 2>>

\* C13 (as claimed): after FloodAreas every leaf whose contents include the
\* area-portal bit and that has an owning entity has the area in that
\* entity's portalareas[0].
C13_AreaPortalLeavesInherit ==
    ArFlooded =>
        \A n \in TreeLeaves(poTree) :
            (HasAreaPortalBit(n) /\ arLeaf[n].func_areaportal # 0)
                => arArea[n] = arPortalAreas[arLeaf[n].func_areaportal][1]

-----------------------------------------------------------------------------
(* Portals: what one call of SplitNodePortals and of FreeTreePortals_r does
   to the graph, stated on the graph before (g) and after (h) the call *)

\* the slot (1 or 2) in which portal p of g holds node
SlotOf(g, p, node) == IF g.portals[p].nodes[1] = node THEN 1 ELSE 2

\* the lists that hold portal p
ListsHolding(g, p) == {n \in 1..Len(g.head) : Occurrences(NodeList(g, n), p) > 0}

\* the two fragments SplitNodePortals keeps of portal p of g
KeptFragments(g, t, node, p) ==
    LET clipped == WindingClip(g.portals[p].winding, NodePlane(t, node),
                               SPLIT_WINDING_EPSILON, TRUE)
    IN  <<TinyDropped(clipped[1]), TinyDropped(clipped[2])>>

\* portal q of h sits where p sat in g, with child in place of node
Reattached(g, h, node, p, q, child) ==
    /\ h.portals[q].nodes[SlotOf(g, p, node)] = child
    /\ h.portals[q].nodes[3 - SlotOf(g, p, node)] = g.portals[p].nodes[3 - SlotOf(g, p, node)]
    /\ ListsHolding(h, q) = {child, g.portals[p].nodes[3 - SlotOf(g, p, node)]}

\* the portals of g whose two fragments both survive the cut
BothSurvive(g, t, node) ==
    {p \in AttachedTo(g, node) :
        KeptFragments(g, t, node, p)[1] # NoWinding /\ KeptFragments(g, t, node, p)[2] # NoWinding}

SplitEffect(g, h, t, node) ==
    /\ h.head[node] = 0 /\ AttachedTo(h, node) = {}
    /\ \A p \in AttachedTo(g, node) :
          LET fr == KeptFragments(g, t, node, p)
          IN  IF fr[1] = NoWinding /\ fr[2] = NoWinding
              THEN h.portals[p].nodes = <<0, 0>> /\ ListsHolding(h, p) = {}
              ELSE IF fr[1] = NoWinding
              THEN Reattached(g, h, node, p, p, Trees[t].children[node][2])
              ELSE IF fr[2] = NoWinding
              THEN Reattached(g, h, node, p, p, Trees[t].children[node][1])
              ELSE /\ Reattached(g, h, node, p, p, Trees[t].children[node][1])
                   /\ h.portals[p].winding = fr[1]
                   /\ \E q \in (Len(g.portals) + 1)..Len(h.portals) :
                         /\ Reattached(g, h, node, p, q, Trees[t].children[node][2])
                         /\ h.portals[q].winding = fr[2]
                         /\ h.portals[q].planenum = g.portals[p].planenum
    /\ Len(h.portals) = Len(g.portals) + Cardinality(BothSurvive(g, t, node))
    /\ \A p \in (1..Len(g.portals)) \ AttachedTo(g, node) :
          /\ h.portals[p].nodes = g.portals[p].nodes
          /\ ListsHolding(h, p) = ListsHolding(g, p)

\* MakeTreePortals taken one call at a time: MakeHeadnodePortals is called
\* when no node has a portal, as after AssertNoPortals
MakeHeadnodePortalsCall ==
    /\ PoCanCall
    /\ \A n \in 1..Len(poHead) : poHead[n] = 0
    /\ PoSet(MakeHeadnodePortals(PoGraph, poTree))
    /\ PoCalled

BuildInit ==
    /\ phase = "portals"
    /\ poTree \in 1..Len(Trees)
    /\ poPortals = <<>>
    /\ poHead = EmptyGraph(poTree).head
    /\ poBounds = EmptyGraph(poTree).bounds
    /\ poStats = 0 /\ poCalls = 0 /\ poErr = ""
    /\ ArIdle /\ TjIdle /\ PlIdle /\ HvIdle /\ MgIdle

BuildNext ==
    \/ MakeHeadnodePortalsCall
    \/ MakeNodePortalCall
    \/ SplitNodePortalsCall
    \/ FreeTreePortalsCall

SpecBuild == BuildInit /\ [][BuildNext]_vars

\* the step of the calls that is SplitNodePortals(node)
SplitStep(node) ==
    /\ PoCanCall /\ HalfRemoved(PoGraph) = {}
    /\ ~IsLeaf(poTree, node)
    /\ PoGraph' = SplitNodePortals(PoGraph, poTree, node)

\* C14: SplitNodePortals(node) leaves node's list empty; every portal that
\* was on node is off both its lists when neither fragment is kept, and is
\* otherwise on a child of node (children[0] for the front fragment,
\* children[1] for the back one) in the slot node had, its other endpoint in
\* its own slot; a portal of which both fragments are kept gives two
\* portals, one on each child; a portal not on node stays on exactly the
\* lists it was on.
C14_SplitNodePortalsEffect ==
    [][\A node \in 1..NumNodes(poTree) :
          SplitStep(node) =>
              poErr' = "" /\ SplitEffect(PoGraph, PoGraph', poTree, node)]_vars

\* the splits of the thin slab's node have run: all four side portals of
\* the slab were dropped, both halves tiny, after the two earlier splits had
\* cut those portals in two and moved others to one child
C14_Witness ==
    /\ poErr = "" /\ poStats = 8 /\ poCalls = 4
    /\ Trees[poTree] = TreeThin
    /\ Cardinality(Loose(PoGraph)) = 4
    /\ Len(poPortals) = 14
    /\ \A n \in {1, 2, 5} : poHead[n] = 0
    /\ \A n \in {3, 4} : AttachedTo(PoGraph, n) # {}

\* the calls that are FreeTreePortals_r(node)
FreeStep(node) ==
    /\ PoCanCall /\ HalfRemoved(PoGraph) = {}
    /\ PoGraph' = FreeTreePortals_r(PoGraph, poTree, node)

\* the portals on a node of the tree below node
OnTree(g, t, node) == UNION {AttachedTo(g, n) : n \in Subtree(t, node)}

FreeEffect(g, h, t, node) ==
    /\ h.err = ""
    /\ \A p \in OnTree(g, t, node) : ~g.portals[p].freed /\ h.portals[p].freed
    /\ Len(h.portals) = Len(g.portals)
    /\ \A p \in (1..Len(g.portals)) \ OnTree(g, t, node) :
          /\ h.portals[p].freed = g.portals[p].freed
          /\ h.portals[p].nodes = g.portals[p].nodes
    /\ \A n \in Subtree(t, node) : h.head[n] = 0 /\ AttachedTo(h, n) = {}
    /\ node = 1 => /\ h.head[OutsideNode(t)] = 0
                   /\ AttachedTo(h, OutsideNode(t)) = {}
                   /\ AssertNoPortals(h, t, 1).err = ""

\* C15: FreeTreePortals_r(node) deletes every portal on a node of the tree
\* below node exactly once and no other; afterwards each of these nodes has
\* an empty list, and when node is the head node so has the outside node,
\* and AssertNoPortals passes.
C15_FreeTreePortalsEffect ==
    [][\A node \in 1..NumNodes(poTree) :
          FreeStep(node) => FreeEffect(PoGraph, PoGraph', poTree, node)]_vars

\* a built and partly split tree was freed from the head node: every portal
\* ever made is deleted and on no list
C15_Witness ==
    /\ poErr = "" /\ poCalls >= 3
    /\ Len(poPortals) >= 8
    /\ \A p \in 1..Len(poPortals) : poPortals[p].freed /\ poPortals[p].nodes = <<0, 0>>
    /\ \A n \in 1..Len(poHead) : poHead[n] = 0

-----------------------------------------------------------------------------
(* T-junction pass: the fragments of a processed face *)

\* the face's task has its result: f->fragments and the counters it raised
TjComputed(f) ==
    phase = "tjunc" /\ f \in DOMAIN tjPc /\ tjPc[f] \in {"computed", "stored"}

TjSuperFace(f) == CreateSuperFace(tjScene, tjOrig, f).sf

\* C16: every fragment of every face has at least 3 output vertices, at
\* every level, NONE included, for every face FindFaces_r hands to
\* FixFaceEdges.
C16_FragmentsHaveThreeVertices ==
    phase = "tjunc" =>
        \A f \in TjAllFaces :
            /\ \A k \in 1..Len(tjFrags[f]) : Len(tjFrags[f][k]) >= 3
            /\ TjComputed(f) =>
                  \A k \in 1..Len(tjLocal[f].frags) : Len(tjLocal[f].frags[k]) >= 3

\* the pass is over on the scene with the collapsed faces, with a repair
\* level and an edge limit of 3: one face has no fragment, one has several
C16_Witness ==
    /\ phase = "tjunc" /\ tjRun = "done" /\ tjScene = 4
    /\ tjLevel = RETOPOLOGIZE /\ tjMaxedges = 3
    /\ tjStats["facecollapse"] = 1
    /\ \E f \in TjAllFaces : tjPc[f] = "stored" /\ tjFrags[f] = <<>>
    /\ \E f \in TjAllFaces : Len(tjFrags[f]) >= 2

\* C18: at level NONE a face gets exactly one fragment, its
\* original_vertices in the same order; no counter changes, no
\* original_vertices changes, and a face not yet stored has no fragment.
C18_NoneCopiesOriginal ==
    (phase = "tjunc" /\ tjLevel = NONE) =>
        /\ tjStats = ZeroStats
        /\ tjOrig = Scenes[tjScene].orig
        /\ tjRun # "aborted"
        /\ \A f \in TjAllFaces :
              /\ TjComputed(f) =>
                    tjLocal[f] = [frags |-> <<tjOrig[f]>>, stats |-> ZeroStats, fatal |-> FALSE]
              /\ tjFrags[f] = IF TjStored(f) THEN <<tjOrig[f]>> ELSE <<>>

\* at NONE the pass is over on scene 1: the face with a neighbour's corner
\* inside its top edge has its four original vertices as its one fragment
C18_Witness ==
    /\ phase = "tjunc" /\ tjLevel = NONE /\ tjRun = "done" /\ tjScene = 1
    /\ tjMaxedges = 3
    /\ Len(TjSuperFace(1)) = 5
    /\ tjFrags[1] = << <<1, 2, 3, 4>> >>

\* C19 (as claimed): at a level other than NONE a face whose superface has
\* exactly 3 vertices gets one fragment, the superface; a face whose
\* superface has fewer gets none and raises facecollapse by one.
C19_TriangleOrCollapse ==
    \A f \in TjAllFaces :
        (TjComputed(f) /\ tjLevel # NONE) =>
            /\ Len(TjSuperFace(f)) = 3 => tjLocal[f].frags = <<TjSuperFace(f)>>
            /\ Len(TjSuperFace(f)) < 3 =>
                  /\ tjLocal[f].frags = <<>>
                  /\ tjLocal[f].stats["facecollapse"] = 1

\* what the claim of C20 gives a face whose superface sf no rotation fits
\* and for which RetopologizeFace returned r
RetopologyOutcome(sf, r, maxedges, local) ==
    IF r = <<>>
    THEN /\ local.frags = IF maxedges # 0 THEN SplitAll(<<sf>>, 1, maxedges, 0, FALSE).faces
                           ELSE <<sf>>
         /\ local.stats["norotates"] = 1 /\ local.stats["retopology"] = 0
    ELSE /\ local.frags = IF maxedges # 0 THEN SplitAll(r, 1, maxedges, 0, FALSE).faces
                           ELSE r
         /\ local.stats["norotates"] = 0 /\ local.stats["retopology"] = 1

\* C20 (as claimed): at level RETOPOLOGIZE, when no rotation of the
\* superface is valid, the superface is stored as it is and norotates raised
\* only when RetopologizeFace returned nothing; any result it returns, a
\* single fan included, is what the fragments are made of, and retopology
\* is raised.
C20_RetopologyUsedWhenNonEmpty ==
    \A f \in TjAllFaces :
        (/\ TjComputed(f) /\ tjLevel = RETOPOLOGIZE
         /\ Len(TjSuperFace(f)) > 3
         /\ FirstValidRotation(tjScene, TjSuperFace(f)) = Len(TjSuperFace(f)))
            => RetopologyOutcome(TjSuperFace(f), RetopologizeFace(tjScene, TjSuperFace(f)),
                                 tjMaxedges, tjLocal[f])

-----------------------------------------------------------------------------
(* Edge-count split: SplitFaceIntoFragments called on one polygon of the
   list `faces`.  tjOrig[1] is the polygon as it was, tjLocal[1] the list and
   the position of the polygon in it, tjStats the counters. *)

\* most vertices on a polygon, largest edge limit
MaxPolygon == 12

MaxSplitEdges == 8

\* a polygon of n vertices, the vertex at position i being 10 * i
Polygon(n) == [i \in 1..n |-> 10 * i]

\* the polygon alone in the list, after another one, or before another one
FacesLists(poly) ==
    {[faces |-> <<poly>>, pos |-> 1],
     [faces |-> << <<1, 2, 3>>, poly>>, pos |-> 2],
     [faces |-> <<poly, <<1, 2, 3>> >>, pos |-> 1]}

FragInit ==
    /\ phase = "fragments"
    /\ tjScene = 0 /\ tjLevel = ROTATE /\ tjOrder = "ascending" /\ tjRun = "running"
    /\ tjMaxedges \in 3..MaxSplitEdges
    /\ \E n \in 3..MaxPolygon :
          /\ tjOrig = <<Polygon(n)>>
          /\ \E l \in FacesLists(Polygon(n)) : tjLocal = <<l>>
    /\ tjFrags = << <<>> >>
    /\ tjStats = ZeroStats
    /\ tjPc = <<"queued">>
    /\ PlIdle /\ HvIdle /\ MgIdle /\ PoIdle /\ ArIdle

SplitFaceIntoFragmentsCall ==
    /\ phase = "fragments" /\ tjPc = <<"queued">>
    /\ LET r == SplitFaceIntoFragments(tjLocal[1].faces, tjLocal[1].pos, tjMaxedges)
       IN  /\ tjLocal' = <<[faces |-> r.output, pos |-> r.pos]>>
           /\ tjStats' = Bump(tjStats, "faceoverflows", r.overflows)
    /\ tjPc' = <<"computed">>
    /\ UNCHANGED <<notTj, tjScene, tjLevel, tjMaxedges, tjOrder, tjRun, tjOrig, tjFrags>>

FragNext == SplitFaceIntoFragmentsCall

SpecFragments == FragInit /\ [][FragNext]_vars

\* the list as it was before the splice moved its first element to the end
Unspliced(faces) == <<faces[Len(faces)]>> \o SubSeq(faces, 1, Len(faces) - 1)

\* the fragments made of the polygon, in the order they were made: the ones
\* appended to the list, then what is left of the polygon itself, which is
\* the element the caller's reference still names.  before is the length of
\* the list before the call.
FragmentsMade(l, before) ==
    SubSeq(Unspliced(l.faces), before + 1, Len(l.faces)) \o <<l.faces[l.pos]>>

FragmentsChain(poly, frags, maxedges) ==
    /\ \A k \in 1..Len(frags) : Len(frags[k]) >= 3 /\ Len(frags[k]) <= maxedges
    /\ frags[1] = SubSeq(poly, 1, maxedges)
    /\ \A k \in 2..Len(frags) :
          /\ frags[k][1] = poly[1]
          /\ frags[k][2] = frags[k - 1][Len(frags[k - 1])]
    /\ SumSeq([k \in 1..Len(frags) |-> Len(frags[k]) - 2]) = Len(poly) - 2
    /\ (Len(poly) = 12 /\ maxedges = 8) => Len(frags) = 2

\* C17: a polygon of n > maxedges vertices (maxedges >= 3) is cut into
\* fragments of 3 to maxedges vertices each; the first is the polygon's
\* first maxedges vertices, every later one starts with the polygon's first
\* vertex and the last vertex of the fragment before it, and the sizes less
\* two add up to n - 2; 12 vertices with maxedges 8 give two fragments.  A
\* polygon that is alone in the list leaves the list holding exactly these
\* fragments in this order.
C17_SplitFaceIntoFragments ==
    (phase = "fragments" /\ tjPc = <<"computed">> /\ Len(tjOrig[1]) > tjMaxedges) =>
        /\ FragmentsChain(tjOrig[1],
                          FragmentsMade(tjLocal[1],
                                        Len(tjLocal[1].faces) - tjStats["faceoverflows"]),
                          tjMaxedges)
        /\ Len(tjLocal[1].faces) = tjStats["faceoverflows"] + 1 =>
              FragmentsChain(tjOrig[1], tjLocal[1].faces, tjMaxedges)

\* the 12-vertex polygon was split with an edge limit of 8 into two fragments
C17_Witness ==
    /\ phase = "fragments" /\ tjPc = <<"computed">>
    /\ Len(tjOrig[1]) = 12 /\ tjMaxedges = 8
    /\ tjStats["faceoverflows"] = 1
    /\ tjLocal[1].faces = << <<10, 20, 30, 40, 50, 60, 70, 80>>, <<10, 80, 90, 100, 110, 120>> >>

-----------------------------------------------------------------------------
(* Coplanar merge: the edge limit of TryMerge *)

\* the face TryMerge builds when no edge limit stands in the way, NoFace when
\* the faces do not pass the tests before it
MergedUnlimited(pl, f1, f2) ==
    IF Len(f1.w) = 0 \/ Len(f2.w) = 0 \/ AttributesDiffer(f1, f2) \/ f1.planenum # f2.planenum
    THEN NoFace
    ELSE TryMerge(pl, f1, f2, Len(f1.w) + Len(f2.w))

\* C22 (as claimed): for faces that agree in all attributes, share an edge and
\* pass the convexity test at both ends of it, TryMerge returns the merged
\* face exactly when the merged polygon has at most MAXEDGES vertices.
C22_MergedCountWithinMaxEdges ==
    (mgTry.op = "TryMerge" /\ MergedUnlimited(planes, mgTry.f1, mgTry.f2) # NoFace) =>
        (mgTry.newf # NoFace <=>
            Len(MergedUnlimited(planes, mgTry.f1, mgTry.f2).w) <= mgMaxEdges)

\* C22 (amended): the limit is tested on the two input windings: the merged
\* face is returned exactly when f1 and f2 together have at most MAXEDGES
\* vertices, so a face returned has at most MAXEDGES - 2 of them and a merge
\* whose result would fit can still be refused.
C22_InputCountWithinMaxEdges ==
    (mgTry.op = "TryMerge" /\ MergedUnlimited(planes, mgTry.f1, mgTry.f2) # NoFace) =>
        /\ mgTry.newf # NoFace <=> Len(mgTry.f1.w) + Len(mgTry.f2.w) <= mgMaxEdges
        /\ mgTry.newf # NoFace =>
              /\ mgTry.newf = MergedUnlimited(planes, mgTry.f1, mgTry.f2)
              /\ Len(mgTry.newf.w) <= mgMaxEdges - 2

\* TryMerge refused two faces for the edge limit although the merged polygon
\* has no more than MAXEDGES vertices
C22_Witness ==
    /\ mgTry.op = "TryMerge"
    /\ MergedUnlimited(planes, mgTry.f1, mgTry.f2) # NoFace
    /\ mgTry.newf = NoFace
    /\ Len(MergedUnlimited(planes, mgTry.f1, mgTry.f2).w) <= mgMaxEdges

-----------------------------------------------------------------------------
(* T-junction pass: the fans of RetopologizeFace *)

\* the pairs of cyclically consecutive vertices of a polygon
CyclicPairs(poly) ==
    {<<poly[i], poly[(i % Len(poly)) + 1]>> : i \in 1..Len(poly)}

\* the fans cover the superface: each boundary edge is in exactly one fan
\* and the fans hold as many triangles as the superface
FansCover(sf, fans) ==
    /\ \A e \in CyclicPairs(sf) :
          Cardinality({k \in 1..Len(fans) : e \in CyclicPairs(fans[k])}) = 1
    /\ SumSeq([k \in 1..Len(fans) |-> Len(fans[k]) - 2]) = Len(sf) - 2

\* RetopologizeFace was called on the superface of f: level RETOPOLOGIZE and
\* no rotation fits
RetopologizeCalled(f) ==
    /\ TjComputed(f) /\ tjLevel = RETOPOLOGIZE
    /\ Len(TjSuperFace(f)) > 3
    /\ FirstValidRotation(tjScene, TjSuperFace(f)) = Len(TjSuperFace(f))

\* C23 (as claimed): when RetopologizeFace succeeds, every boundary edge of
\* the superface is in exactly one fan and the fans' triangle counts sum to
\* n - 2, whether a fan ends ahead of its seed or wraps past the end of the
\* vertex array.
C23_FansCoverSuperface ==
    \A f \in TjAllFaces :
        (RetopologizeCalled(f) /\ RetopologizeFace(tjScene, TjSuperFace(f)) # <<>>) =>
            FansCover(TjSuperFace(f), RetopologizeFace(tjScene, TjSuperFace(f)))

-----------------------------------------------------------------------------
(* T-junction pass: what TestEdge appends for one edge of a face *)

\* the call CreateSuperFace makes for edge i of face f
EdgeCall(sc, orig, f, i) ==
    LET v1 == At0(orig[f], i)
        v2 == At0(orig[f], (i + 1) % Len(orig[f]))
        dir == VSub(Dvertex(sc, v2), Dvertex(sc, v1))
        edge_verts == FindEdgeVerts_FaceBounds(sc, orig, Dvertex(sc, v1), Dvertex(sc, v2))
    IN  [v1 |-> v1, v2 |-> v2, dir |-> dir, edge_verts |-> edge_verts,
         out |-> TestEdge(sc, 0, VLen2(dir), v1, v2, 0, edge_verts, Dvertex(sc, v1), dir)]

\* the distance of candidate j along the edge of call c
AlongEdge(sc, c, j) == VDot(VSub(Dvertex(sc, j), Dvertex(sc, c.v1)), c.dir)

\* the candidates of call c that lie on its edge
OnEdge(sc, c) ==
    {j \in Range(c.edge_verts) :
        /\ j # c.v1 /\ j # c.v2
        /\ PointOnEdge(SceneUnit(sc), Dvertex(sc, j), Dvertex(sc, c.v1), c.dir, 0,
                       VLen2(c.dir)).has}

\* what the claim of C24 says the call appends
TestEdgeAsClaimed(sc, c) ==
    IF c.v1 = c.v2
    THEN c.out.sf = <<>> /\ c.out.stats["degenerate"] = 1
    ELSE /\ c.out.sf # <<>> /\ Head(c.out.sf) = c.v1
         /\ Range(Tail(c.out.sf)) = OnEdge(sc, c)
         /\ \A a, b \in 2..Len(c.out.sf) :
               a < b => AlongEdge(sc, c, c.out.sf[a]) < AlongEdge(sc, c, c.out.sf[b])
         /\ c.out.stats["degenerate"] = 0

\* C24 (as claimed): for a non-degenerate edge TestEdge appends v1 and then
\* every candidate that lies on the edge, in strictly increasing distance from
\* v1, each once and never v1 or v2; for a degenerate edge it appends nothing
\* and raises degenerate.
C24_TestEdgeAppendsAllOnEdge ==
    \A f \in TjAllFaces :
        (TjComputed(f) /\ tjLevel # NONE) =>
            \A i \in 0..(Len(tjOrig[f]) - 1) :
                TestEdgeAsClaimed(tjScene, EdgeCall(tjScene, tjOrig, f, i))

-----------------------------------------------------------------------------
(* T-junction pass: the rotation step of FixFaceEdges *)

\* the bases whose fan has no invalid triangle
ValidBases(sc, sf) ==
    {i \in 0..(Len(sf) - 1) :
        \A x \in 0..(Len(sf) - 3) :
            TriangleIsValid(sc, At0(sf, i), At0(sf, (i + x + 1) % Len(sf)),
                            At0(sf, (i + x + 2) % Len(sf)))}

\* poly is sf started at index i: same length, same cyclic order
StartsAt(poly, sf, i) ==
    /\ Len(poly) = Len(sf)
    /\ \A k \in 0..(Len(sf) - 1) : At0(poly, k) = At0(sf, (i + k) % Len(sf))

\* the fragments the edge-count split makes of one polygon
AfterSplit(poly, maxedges) ==
    IF maxedges # 0 THEN SplitAll(<<poly>>, 1, maxedges, 0, FALSE).faces ELSE <<poly>>

\* C25: at level ROTATE, for a superface of more than 3 vertices that has a
\* valid rotation, the polygon handed to the edge-count split is the
\* superface started at the smallest valid base i (same vertices, same cyclic
\* order), and rotates is raised exactly when i is not 0.
C25_FirstValidRotationWins ==
    \A f \in TjAllFaces :
        (/\ TjComputed(f) /\ tjLevel = ROTATE
         /\ Len(TjSuperFace(f)) > 3
         /\ ValidBases(tjScene, TjSuperFace(f)) # {})
            => \E poly \in {Rotate0(TjSuperFace(f), i) : i \in 0..(Len(TjSuperFace(f)) - 1)} :
                  /\ StartsAt(poly, TjSuperFace(f), Min(ValidBases(tjScene, TjSuperFace(f))))
                  /\ tjLocal[f].frags = AfterSplit(poly, tjMaxedges)
                  /\ tjLocal[f].stats["rotates"]
                        = IF Min(ValidBases(tjScene, TjSuperFace(f))) # 0 THEN 1 ELSE 0
                  /\ tjLocal[f].stats["norotates"] = 0

\* at ROTATE with no edge limit a face whose superface has several valid
\* bases, 0 not among them, holds the superface started at the first of them
C25_Witness ==
    /\ phase = "tjunc" /\ tjLevel = ROTATE /\ tjMaxedges = 0
    /\ \E f \in TjAllFaces :
          /\ TjComputed(f) /\ Len(TjSuperFace(f)) > 3
          /\ Cardinality(ValidBases(tjScene, TjSuperFace(f))) > 1
          /\ 0 \notin ValidBases(tjScene, TjSuperFace(f))
          /\ tjLocal[f].stats["rotates"] = 1
          /\ Len(tjLocal[f].frags) = 1
          /\ tjLocal[f].frags[1][1] =
                At0(TjSuperFace(f), Min(ValidBases(tjScene, TjSuperFace(f))))

-----------------------------------------------------------------------------
(* T-junction pass: compress_triangles_into_fans on the triangles of the
   minimum-weight triangulation *)

\* the triangles (as sets of output vertices) all of whose corners are on poly
TrianglesOn(sf, tris, poly) ==
    {t \in 1..Len(tris) : Range(MapVertices(sf, tris[t])) \subseteq Range(poly)}

\* poly lists some vertices of sf in the cyclic order of sf, each once
InCyclicOrderOf(sf, poly) ==
    /\ Cardinality(Range(poly)) = Len(poly)
    /\ \E s \in 0..(Len(sf) - 1) :
          poly = SelectSeq(Rotate0(sf, s), LAMBDA v : v \in Range(poly))

\* what the claim of C26 says of the polygons made of the triangles tris of
\* the superface sf
FansAsClaimed(sf, tris, polys) ==
    /\ SumSeq([k \in 1..Len(polys) |-> Len(polys[k]) - 2]) = Len(tris)
    /\ \A t \in 1..Len(tris) :
          Cardinality({k \in 1..Len(polys) : t \in TrianglesOn(sf, tris, polys[k])}) = 1
    /\ \A k \in 1..Len(polys) :
          /\ Cardinality(TrianglesOn(sf, tris, polys[k])) = Len(polys[k]) - 2
          /\ InCyclicOrderOf(sf, polys[k])
          /\ \A t \in TrianglesOn(sf, tris, polys[k]) :
                polys[k][1] \in Range(MapVertices(sf, tris[t]))
          /\ Len(polys[k]) = 3 => \A later \in k..Len(polys) : Len(polys[later]) = 3

\* mwt_face was called on the superface of f
MwtCalled(f) == TjComputed(f) /\ tjLevel >= MWT /\ Len(TjSuperFace(f)) > 3

\* the outcome for face f: sf its superface, tris the triangles of the
\* triangulation, out what compress_triangles_into_fans made of them
FansOutcome(f, sf, tris, out) ==
    /\ ~ out.bad
    /\ FansAsClaimed(sf, tris, out.faces)
    /\ tjLocal[f].stats["trimwt"] = Len(tris)
    /\ tjMaxedges = 0 => tjLocal[f].frags = out.faces

FansOfTriangles(f, sf, tris) ==
    FansOutcome(f, sf, tris, compress_triangles_into_fans(tris, sf, tjOrder))

\* C26: compress_triangles_into_fans ends without a failed assertion and puts
\* every triangle in exactly one polygon: the polygons' triangle counts sum
\* to the number of triangles, a fan of k triangles is one polygon of k + 2
\* distinct vertices in the superface's cyclic order starting at the fan's
\* seed, and after the first 3-vertex polygon only 3-vertex polygons follow.
C26_TrianglesCompressedIntoFans ==
    \A f \in TjAllFaces :
        MwtCalled(f) =>
            FansOfTriangles(f, TjSuperFace(f),
                            minimum_weight_triangulation(tjScene, TjSuperFace(f)))

\* at level MWT with no edge limit a face holds a fan of four triangles and
\* two single triangles: the octagon of scene 3
C26_Witness ==
    /\ phase = "tjunc" /\ tjLevel = MWT /\ tjMaxedges = 0 /\ tjScene = 3
    /\ TjComputed(1)
    /\ Len(tjLocal[1].frags) = 3
    /\ Len(tjLocal[1].frags[1]) = 6
    /\ Len(tjLocal[1].frags[2]) = 3 /\ Len(tjLocal[1].frags[3]) = 3
    /\ tjLocal[1].stats["trimwt"] = 6

-----------------------------------------------------------------------------
(* T-junction pass: the order of the repair steps *)

\* position of step name in the sequence steps, 0 when it is not in it
StepAt(steps, name) ==
    IF \E k \in 1..Len(steps) : steps[k] = name
    THEN Min({k \in 1..Len(steps) : steps[k] = name}) ELSE 0

\* the steps run for a face at `level`, and what the counters st of the
\* finished task show of them
StepsGated(sc, sf, level, steps, st) ==
    /\ StepAt(steps, "mwt_face") = IF level = MWT THEN 1 ELSE 0
    /\ StepAt(steps, "rotate") # 0 => (StepAt(steps, "mwt_face") = 0 \/ st["mwt"] = 0)
    /\ StepAt(steps, "RetopologizeFace") # 0 =>
          /\ level >= RETOPOLOGIZE
          /\ ValidBases(sc, sf) = {}
          /\ 0 < StepAt(steps, "rotate")
          /\ StepAt(steps, "rotate") < StepAt(steps, "RetopologizeFace")
    /\ level = ROTATE => steps = <<"rotate">>
    \* the counters agree with the steps
    /\ st["trimwt"] > 0 <=> StepAt(steps, "mwt_face") # 0
    /\ st["mwt"] + st["facemwt"] > 0 => StepAt(steps, "mwt_face") # 0
    /\ st["rotates"] + st["norotates"] > 0 => StepAt(steps, "rotate") # 0
    /\ st["retopology"] + st["faceretopology"] > 0 => StepAt(steps, "RetopologizeFace") # 0
    /\ st["mwt"] > 0 => st["rotates"] + st["norotates"] + st["retopology"] = 0
    /\ level = ROTATE =>
          st["mwt"] + st["trimwt"] + st["facemwt"] + st["retopology"] + st["faceretopology"] = 0

StepsOfFace(f, sf) ==
    StepsGated(tjScene, sf, tjLevel,
               RepairSteps(sf, tjLevel,
                           IF tjLevel >= MWT THEN mwt_face(tjScene, sf, tjOrder)
                           ELSE [faces |-> <<>>, ntris |-> 0, bad |-> FALSE],
                           FirstValidRotation(tjScene, sf)),
               tjLocal[f].stats)

\* C27: the repair steps of FixFaceEdges run in a fixed order gated by the
\* level: mwt_face first and only at level MWT; the rotation only if mwt_face
\* did not run or gave no polygon; RetopologizeFace only from level
\* RETOPOLOGIZE up and only after every rotation was found invalid; at level
\* ROTATE only the rotation, with the counters mwt and retopology untouched.
C27_RepairStepsGatedByLevel ==
    \A f \in TjAllFaces :
        (TjComputed(f) /\ tjLevel # NONE /\ Len(TjSuperFace(f)) > 3) =>
            StepsOfFace(f, TjSuperFace(f))

\* a face no rotation can repair, at level MWT: mwt_face ran first and gave
\* polygons, so neither the rotation nor RetopologizeFace was tried
C27_Witness ==
    /\ phase = "tjunc" /\ tjScene = 2 /\ tjLevel = MWT /\ TjComputed(1)
    /\ Len(TjSuperFace(1)) > 3
    /\ ValidBases(2, TjSuperFace(1)) = {}
    /\ tjLocal[1].stats["mwt"] = 1
    /\ tjLocal[1].stats["trimwt"] = Len(TjSuperFace(1)) - 2
    /\ tjLocal[1].stats["norotates"] + tjLocal[1].stats["retopology"] = 0

-----------------------------------------------------------------------------
(* Portals: what one call of MakeNodePortal does to the graph, stated on the
   graph before (g) and after (h) the call *)

\* w cut to the front of the plane of every portal of list as node sees it
RECURSIVE ClippedByAll(_, _, _, _, _)
ClippedByAll(g, t, node, w, list) ==
    IF list = <<>> \/ w = NoWinding THEN w
    ELSE ClippedByAll(g, t, node,
             WindingClip(w, PortalPlane(g, t, list[1], SlotOf(g, list[1], node) - 1),
                         NodePortalEpsilon, FALSE)[1],
             Tail(list))

\* the winding MakeNodePortal is left with
NodePortalWinding(g, t, node) ==
    ClippedByAll(g, t, node, BaseWindingForNode(t, node), NodeList(g, node))

MakeEffectOf(g, h, t, node, w) ==
    /\ h.err = ""
    /\ \A p \in 1..Len(g.portals) : h.portals[p] = g.portals[p]
    /\ NodeList(h, node) = NodeList(g, node)
    /\ IF w # NoWinding /\ ~WindingIsTiny(w)
       THEN /\ Len(h.portals) = Len(g.portals) + 1
            /\ h.portals[Len(h.portals)].planenum = Trees[t].planenum[node]
            /\ h.portals[Len(h.portals)].onnode = node
            /\ h.portals[Len(h.portals)].winding = w
            /\ h.portals[Len(h.portals)].nodes = Trees[t].children[node]
            /\ ~h.portals[Len(h.portals)].freed
            /\ ListsHolding(h, Len(h.portals))
                 = {Trees[t].children[node][1], Trees[t].children[node][2]}
            /\ \A n \in 1..Len(g.head) :
                  NodeList(h, n) = IF n \in ListsHolding(h, Len(h.portals))
                                   THEN <<Len(h.portals)>> \o NodeList(g, n)
                                   ELSE NodeList(g, n)
            /\ h.tiny = g.tiny
       ELSE /\ h.portals = g.portals /\ h.head = g.head
            /\ h.tiny = IF w = NoWinding THEN g.tiny ELSE g.tiny + 1

MakeEffect(g, h, t, node) == MakeEffectOf(g, h, t, node, NodePortalWinding(g, t, node))

\* the step of the calls that is MakeNodePortal(node)
MakeStep(node) ==
    /\ PoCanCall /\ HalfRemoved(PoGraph) = {}
    /\ ~IsLeaf(poTree, node)
    /\ PoGraph' = MakeNodePortal(PoGraph, poTree, node)

\* C28: MakeNodePortal(node) attaches exactly one new portal, with planenum
\* node's planenum, onnode node, nodes[0] children[0] and nodes[1]
\* children[1], when the base winding cut by every portal on node is neither
\* empty nor tiny; otherwise it attaches nothing and changes no list, a tiny
\* winding raising c_tinyportals by one; the portals that were on node stay
\* on it as they were.
C28_MakeNodePortalEffect ==
    [][\A node \in 1..NumNodes(poTree) :
          MakeStep(node) => MakeEffect(PoGraph, PoGraph', poTree, node)]_vars

\* the head node of the corner tree got its portal while the six portals of
\* MakeHeadnodePortals were on it: the new one is cut down from the base
\* winding and sits on the two children only
C28_Witness ==
    /\ poErr = "" /\ Len(poPortals) = 7
    /\ Trees[poTree] = TreeCorner
    /\ Cardinality(AttachedTo(PoGraph, 1)) = 6
    /\ poPortals[7].onnode = 1
    /\ poPortals[7].nodes = Trees[poTree].children[1]
    /\ poPortals[7].winding # BaseWindingForNode(poTree, 1)
    /\ poPortals[7].winding # NoWinding

-----------------------------------------------------------------------------
(* Portals: where the portals of a finished tree are *)

InteriorNodes(t) == {n \in 1..NumNodes(t) : ~IsLeaf(t, n)}

\* no node with children has a portal, and every end of a portal is a leaf
\* of the tree or the outside node
OnLeavesOnly(g, t) ==
    /\ \A n \in InteriorNodes(t) : g.head[n] = 0 /\ AttachedTo(g, n) = {}
    /\ \A p \in 1..Len(g.portals) :
          \A s \in 1..2 : g.portals[p].nodes[s] # 0 => IsLeaf(t, g.portals[p].nodes[s])

\* C29: once MakeTreePortals has returned, every node with children has an
\* empty portal list and both ends of every attached portal are leaves (a
\* leaf of the tree or the outside node), so that FloodAreas never meets the
\* 'not a leaf' error of Portal_EntityFlood.
C29_PortalsOnLeavesOnly ==
    (phase = "areas" /\ poCalls >= 1) =>
        /\ poErr # "Portal_EntityFlood: not a leaf"
        /\ poErr = "" => OnLeavesOnly(PoGraph, poTree)

\* the hub tree was portalized and flooded: a portal between two rooms that
\* are not solid was crossed by the flood, which gave both the same area
C29_Witness ==
    /\ phase = "areas" /\ poCalls = 2 /\ poErr = ""
    /\ Cardinality(InteriorNodes(poTree)) >= 2
    /\ \E p \in 1..Len(poPortals) :
          /\ poPortals[p].nodes[1] \in TreeLeaves(poTree) \ {OutsideNode(poTree)}
          /\ poPortals[p].nodes[2] \in TreeLeaves(poTree) \ {OutsideNode(poTree)}
          /\ poPortals[p].onnode # 1
          /\ Portal_EntityFlood(arLeaf, poPortals[p].nodes[1], poPortals[p].nodes[2])
          /\ arArea[poPortals[p].nodes[1]] # 0
          /\ arArea[poPortals[p].nodes[1]] = arArea[poPortals[p].nodes[2]]

-----------------------------------------------------------------------------
(* SplitFaceIntoFragments pass by pass, for every edge limit that passes the
   test of FixFaceEdges (maxedges.value() not 0) and is positive.  tjLocal[1]
   is the list and the position of the polygon in it, tjPc is "queued" while
   the loop runs, faceoverflows counts the passes. *)

\* most passes followed
MaxPasses == 10

\* what std::copy may do in a pass
CopyKinds(maxedges) == IF maxedges >= 2 THEN {"memmove"} ELSE {"memmove", "forward"}

\* the polygon the loop is cutting down
Remaining == tjLocal[1].faces[tjLocal[1].pos]

LoopInit ==
    /\ phase = "splitloop"
    /\ tjScene = 0 /\ tjLevel = ROTATE /\ tjOrder = "ascending" /\ tjRun = "running"
    /\ tjMaxedges \in 1..MaxSplitEdges
    /\ \E n \in 3..MaxPolygon :
          /\ tjOrig = <<Polygon(n)>>
          /\ \E l \in FacesLists(Polygon(n)) : tjLocal = <<l>>
    /\ tjFrags = << <<>> >>
    /\ tjStats = ZeroStats
    /\ tjPc = <<"queued">>
    /\ PlIdle /\ HvIdle /\ MgIdle /\ PoIdle /\ ArIdle

\* while (superface.size() > maxedges): one pass
SplitPassStep ==
    /\ phase = "splitloop" /\ tjPc = <<"queued">>
    /\ Len(Remaining) > tjMaxedges
    /\ tjStats["faceoverflows"] < MaxPasses
    /\ \E copy \in CopyKinds(tjMaxedges) :
          tjLocal' = <<[faces |-> SplitPass(tjLocal[1].faces, tjLocal[1].pos, tjMaxedges, copy),
                        pos |-> tjLocal[1].pos]>>
    /\ tjStats' = Bump(tjStats, "faceoverflows", 1)
    /\ UNCHANGED <<notTj, tjScene, tjLevel, tjMaxedges, tjOrder, tjRun, tjOrig, tjFrags, tjPc>>

\* the loop is left and the first element of the list spliced to its end
SplitLoopExit ==
    /\ phase = "splitloop" /\ tjPc = <<"queued">>
    /\ Len(Remaining) <= tjMaxedges
    /\ tjLocal' = <<[faces |-> Tail(tjLocal[1].faces) \o <<Head(tjLocal[1].faces)>>,
                     pos |-> IF tjLocal[1].pos = 1 THEN Len(tjLocal[1].faces)
                             ELSE tjLocal[1].pos - 1]>>
    /\ tjPc' = <<"computed">>
    /\ UNCHANGED <<notTj, tjScene, tjLevel, tjMaxedges, tjOrder, tjRun, tjOrig, tjFrags, tjStats>>

LoopNext == SplitPassStep \/ SplitLoopExit

SpecSplitLoop == LoopInit /\ [][LoopNext]_vars

\* C30 (as claimed): for every polygon and every edge limit maxedges > 0,
\* each pass of the loop of SplitFaceIntoFragments leaves strictly fewer
\* vertices in the remaining polygon, so that the loop ends with at most
\* maxedges of them.
C30_EveryPassShrinks ==
    [][(phase = "splitloop" /\ tjStats'["faceoverflows"] # tjStats["faceoverflows"]) =>
          Len(Remaining') < Len(Remaining)]_vars

\* with an edge limit of 3 or more every pass shrinks the polygon, by
\* maxedges - 2 vertices
PassShrinksFromThree ==
    [][(phase = "splitloop" /\ tjMaxedges >= 3
          /\ tjStats'["faceoverflows"] # tjStats["faceoverflows"]) =>
          Len(Remaining') = Len(Remaining) - (tjMaxedges - 2)]_vars

\* the pass by pass loop and the whole call agree wherever the loop ends
LoopAgreesWithCall ==
    (phase = "splitloop" /\ tjPc = <<"computed">> /\ tjMaxedges >= 3) =>
        \E l \in FacesLists(tjOrig[1]) :
            /\ tjLocal[1].faces = SplitFaceIntoFragments(l.faces, l.pos, tjMaxedges).output
            /\ tjLocal[1].pos = SplitFaceIntoFragments(l.faces, l.pos, tjMaxedges).pos
            /\ tjStats["faceoverflows"]
                  = SplitFaceIntoFragments(l.faces, l.pos, tjMaxedges).overflows

====
